---- MODULE Spec2Model ----
(***************************************************************************)
(* REST endpoints over a spreadsheet (row store) and a drive (blob store). *)
(*                                                                         *)
(* Every request handler is an async function: it runs synchronously up to *)
(* its next `await`, and each awaited remote call (spreadsheet get /       *)
(* append / update, drive create / permission) is one atomic step of the   *)
(* remote service.  Handlers of different requests interleave between      *)
(* their remote calls.                                                     *)
(*                                                                         *)
(* Conventions.  A sheet is a grid: a sequence of rows, every row a        *)
(* sequence of Width cells, every cell a string, "" the empty cell.  Row 1 *)
(* is the header.  JavaScript's 0-based index i of a row array is index    *)
(* i + 1 here.  `undefined` stands for the JavaScript value undefined (a   *)
(* body field that was not sent, an array element past the end).  Body     *)
(* fields are strings, as the cells they become.                           *)
(***************************************************************************)
EXTENDS Integers, Sequences, FiniteSets, TLC

VARIABLES
    sheet,      \* table name -> grid: the spreadsheets' tabs
    drive,      \* sequence of blobs created in the drive folders
    now,        \* the clock read by `new Date()`
    nextId,     \* number of identifiers uuidv4() has generated so far, plus one
    svc,        \* the route group the requests of this run address
    left,       \* remote calls the run may still make
    answered,   \* the creations and movements answered with success, in order
    req         \* request slot -> the handler's position and local variables

vars == <<sheet, drive, now, nextId, svc, left, answered, req>>

----------------------------------------------------------------------------
(* Bounds *)

\* Remote calls served in one run of requests to Departments, Employees or
\* Students, handled one at a time.
MaxEntityCalls == 4
\* Remote calls served, and QR codes that failed, in one run of requests to
\* the file movement log.
MaxFileCalls == 6
\* Remote calls served in one run of requests to the bus or generator log.
MaxLogCalls == 4
\* Remote calls served in one run of requests to the file movement log that
\* all succeed.
MaxHistoryCalls == 8

----------------------------------------------------------------------------
(* JavaScript values *)

undefined == "<undefined>"

\* !v is false: for the strings and undefined of this model, v is neither
\* undefined nor the empty string.
Truthy(v) == v \notin {undefined, ""}

\* a ?? b in place of a || b: an empty string counts as a value.
OrNullish(a, b) == IF a # undefined THEN a ELSE b

\* a || b
Or(a, b) == IF Truthy(a) THEN a ELSE b

\* row[i - 1] in JavaScript: undefined past the end of the array.
At(row, i) == IF i \in 1..Len(row) THEN row[i] ELSE undefined

\* new Date().toISOString() at clock value n.
ISO(n) == "T" \o ToString(n)

\* uuidv4(): the n-th identifier generated, fresh on every call.
Uuid(n) == "u" \o ToString(n)

Max(S) == CHOOSE x \in S : \A y \in S : y <= x
Min(S) == CHOOSE x \in S : \A y \in S : x <= y

----------------------------------------------------------------------------
(* The spreadsheet service, as the handlers call it *)

Entities == {"Departments", "Employees", "Students"}
Tables == Entities \cup {"Files", "Movements", "BusSheet1", "GenSheet1"}
Services == Entities \cup {"FileLog", "BusLog", "GenLog"}

\* Number of columns of the range each handler addresses (A:G, A:I, A:J, A:K).
Width(t) ==
    CASE t = "Departments" -> 7
      [] t = "Employees" -> 9
      [] t = "Students" -> 10
      [] t = "Files" -> 7
      [] t = "Movements" -> 9
      [] t = "BusSheet1" -> 11
      [] t = "GenSheet1" -> 10

\* Index of the last non-empty cell of a row, 0 when the row is empty.
LastFilled(row) == Max({0} \cup {i \in 1..Len(row) : row[i] # ""})

\* values.get returns a row without its trailing empty cells.
TrimRow(row) == SubSeq(row, 1, LastFilled(row))

\* values.get returns no trailing empty rows.
TrimRows(rows) ==
    SubSeq(rows, 1, Max({0} \cup {i \in 1..Len(rows) : rows[i] # <<>>}))

\* sheets.spreadsheets.values.get over columns c1..c2 of every row:
\* response.data.values (<<>> stands for an absent `values`).
ValuesGet(grid, c1, c2) ==
    TrimRows([i \in 1..Len(grid) |-> TrimRow(SubSeq(grid[i], c1, c2))])

\* sheets.spreadsheets.values.get over columns c1..c2 of row r.
RowGet(grid, r, c1, c2) ==
    IF r \in 1..Len(grid)
    THEN TrimRows(<<TrimRow(SubSeq(grid[r], c1, c2))>>)
    ELSE <<>>

\* An append whose range ends at the last row: the new row is written over
\* the last row of the tab.
ValuesAppendOverLast(grid, width, row) ==
    [grid EXCEPT ![Len(grid)] =
       [c \in 1..width |-> IF At(row, c) = undefined THEN "" ELSE row[c]]]

\* An append that inserts the new row under the header, moving every data
\* row down by one.
ValuesAppendUnderHeader(grid, width, row) ==
    <<grid[1]>>
      \o <<[c \in 1..width |-> IF At(row, c) = undefined THEN "" ELSE row[c]]>>
      \o SubSeq(grid, 2, Len(grid))

\* sheets.spreadsheets.values.append: one row after the last row of the tab;
\* an undefined value is sent as null and leaves its cell empty.
ValuesAppend(grid, width, row) ==
    Append(grid, [c \in 1..width |->
                    IF At(row, c) = undefined THEN "" ELSE row[c]])

\* An update that keeps the old row and adds the new version of the row
\* after the last row of the tab.
ValuesUpdateAsNewRow(grid, r, row) ==
    Append(grid, [c \in 1..Len(grid[r]) |->
                    IF At(row, c) = undefined THEN grid[r][c] ELSE row[c]])

\* sheets.spreadsheets.values.update of row r: every value overwrites its
\* cell; an undefined value is sent as null and leaves its cell as it is.
ValuesUpdate(grid, r, row) ==
    [grid EXCEPT ![r] = [c \in 1..Len(@) |->
                           IF At(row, c) = undefined THEN @[c] ELSE row[c]]]

----------------------------------------------------------------------------
(* Departments, Employees, Students: the pure parts of the handlers *)

DeptHeader == <<"DepartmentID", "DepartmentName", "Description", "Location",
                "InChargeEmployeeID", "CreatedAt", "UpdatedAt">>
EmpHeader == <<"EmployeeID", "EmployeeName", "DepartmentID", "Email", "Phone",
               "Role", "Responsibilities", "CreatedAt", "UpdatedAt">>
StudHeader == <<"StudentID", "StudentName", "RollNumber", "DepartmentID",
                "Course", "YearOfStudy", "Email", "Phone", "CreatedAt",
                "UpdatedAt">>

\* The body fields each /create handler reads.
DeptCreateFields == {"departmentName", "description", "location"}
EmpCreateFields == {"employeeName", "departmentId", "email", "phone", "role",
                    "responsibilities"}
StudCreateFields == {"studentName", "rollNumber", "departmentId", "course",
                     "yearOfStudy", "email", "phone"}

\* The body fields each /update handler reads.
DeptUpdateFields == {"departmentName", "description", "location",
                     "inChargeEmployeeId"}
EmpUpdateFields == EmpCreateFields
StudUpdateFields == StudCreateFields

\* if (!departmentName || !location) return 400
DeptCreateInvalid(b) == ~Truthy(b.departmentName) \/ ~Truthy(b.location)
EmpCreateInvalid(b) ==
    ~Truthy(b.employeeName) \/ ~Truthy(b.departmentId) \/ ~Truthy(b.role)
StudCreateInvalid(b) ==
    \/ ~Truthy(b.studentName) \/ ~Truthy(b.rollNumber)
    \/ ~Truthy(b.departmentId) \/ ~Truthy(b.course) \/ ~Truthy(b.yearOfStudy)

\* The row each /create handler appends.
DeptCreateRow(id, b, ts) ==
    <<id, b.departmentName, Or(b.description, ""), b.location, "", ts, ts>>
EmpCreateRow(id, b, ts) ==
    <<id, b.employeeName, b.departmentId, Or(b.email, ""), Or(b.phone, ""),
      b.role, Or(b.responsibilities, ""), ts, ts>>
StudCreateRow(id, b, ts) ==
    <<id, b.studentName, b.rollNumber, b.departmentId, b.course,
      b.yearOfStudy, Or(b.email, ""), Or(b.phone, ""), ts, ts>>

\* const updatedRow = [...]: the row each /update handler writes back.
DeptUpdatedRow(id, b, existingData, ts) ==
    <<id,
      Or(b.departmentName, At(existingData, 2)),
      Or(b.description, At(existingData, 3)),
      Or(b.location, At(existingData, 4)),
      Or(b.inChargeEmployeeId, At(existingData, 5)),
      At(existingData, 6),
      ts>>
EmpUpdatedRow(id, b, existingData, ts) ==
    <<id,
      Or(b.employeeName, At(existingData, 2)),
      Or(b.departmentId, At(existingData, 3)),
      Or(b.email, At(existingData, 4)),
      Or(b.phone, At(existingData, 5)),
      Or(b.role, At(existingData, 6)),
      Or(b.responsibilities, At(existingData, 7)),
      At(existingData, 8),
      ts>>
StudUpdatedRow(id, b, existingData, ts) ==
    <<id,
      Or(b.studentName, At(existingData, 2)),
      Or(b.rollNumber, At(existingData, 3)),
      Or(b.departmentId, At(existingData, 4)),
      Or(b.course, At(existingData, 5)),
      Or(b.yearOfStudy, At(existingData, 6)),
      Or(b.email, At(existingData, 7)),
      Or(b.phone, At(existingData, 8)),
      At(existingData, 9),
      ts>>

CreateFields(e) ==
    CASE e = "Departments" -> DeptCreateFields
      [] e = "Employees" -> EmpCreateFields
      [] e = "Students" -> StudCreateFields
UpdateFields(e) ==
    CASE e = "Departments" -> DeptUpdateFields
      [] e = "Employees" -> EmpUpdateFields
      [] e = "Students" -> StudUpdateFields
CreateInvalid(e, b) ==
    CASE e = "Departments" -> DeptCreateInvalid(b)
      [] e = "Employees" -> EmpCreateInvalid(b)
      [] e = "Students" -> StudCreateInvalid(b)
\* A creation that leaves updated-at for the first update to fill.
CreateRowNoUpdatedAt(e, id, b, ts) ==
    LET row == CASE e = "Departments" -> DeptCreateRow(id, b, ts)
                 [] e = "Employees" -> EmpCreateRow(id, b, ts)
                 [] e = "Students" -> StudCreateRow(id, b, ts)
    IN  [c \in 1..Len(row) |-> IF c = Len(row) THEN "" ELSE row[c]]

CreateRow(e, id, b, ts) ==
    CASE e = "Departments" -> DeptCreateRow(id, b, ts)
      [] e = "Employees" -> EmpCreateRow(id, b, ts)
      [] e = "Students" -> StudCreateRow(id, b, ts)
\* An update that sends only the cells it changes and the updated-at cell:
\* the other cells of the range are left to the sheet.
UpdatedRowPatch(e, id, b, existingData, ts) ==
    LET full == CASE e = "Departments" -> DeptUpdatedRow(id, b, existingData, ts)
                  [] e = "Employees" -> EmpUpdatedRow(id, b, existingData, ts)
                  [] e = "Students" -> StudUpdatedRow(id, b, existingData, ts)
    IN  [c \in 1..Len(full) |->
           IF c = Len(full) \/ full[c] # At(existingData, c) THEN full[c]
           ELSE undefined]

\* An update without the fallback to existingData: a field the body does not
\* supply is written as the empty string.
UpdatedRowBodyOnly(e, id, b, existingData, ts) ==
    LET blank == [c \in 1..Len(existingData) |->
                    IF c = Len(existingData) - 1 THEN existingData[c] ELSE ""]
    IN  CASE e = "Departments" -> DeptUpdatedRow(id, b, blank, ts)
          [] e = "Employees" -> EmpUpdatedRow(id, b, blank, ts)
          [] e = "Students" -> StudUpdatedRow(id, b, blank, ts)

UpdatedRow(e, id, b, existingData, ts) ==
    CASE e = "Departments" -> DeptUpdatedRow(id, b, existingData, ts)
      [] e = "Employees" -> EmpUpdatedRow(id, b, existingData, ts)
      [] e = "Students" -> StudUpdatedRow(id, b, existingData, ts)

\* return i in place of return i + 1: the index of the array, not of the sheet.
FindRowIndexByIdZeroBased(rows, id) ==
    LET hits == {i \in 1..Len(rows) : At(rows[i], 1) = id}
    IN  IF hits = {} THEN -1 ELSE Min(hits) - 1

\* return 0 in place of return -1 when no row matches.
FindRowIndexByIdOrZero(rows, id) ==
    LET hits == {i \in 1..Len(rows) : At(rows[i], 1) = id}
    IN  IF hits = {} THEN 0 ELSE Min(hits)

\* The loop without its return at the first match: the last match is kept.
FindRowIndexByIdLast(rows, id) ==
    LET hits == {i \in 1..Len(rows) : At(rows[i], 1) = id}
    IN  IF hits = {} THEN -1 ELSE Max(hits)

\* return i + 2 in place of return i + 1: the row below the match.
FindRowIndexByIdBelow(rows, id) ==
    LET hits == {i \in 1..Len(rows) : At(rows[i], 1) = id}
    IN  IF hits = {} THEN -1 ELSE Min(hits) + 1

\* findRowIndexById's loop over the column A values: the 1-based index of the
\* first row whose first cell is id, -1 when there is none.
FindRowIndexById(rows, id) ==
    LET hits == {i \in 1..Len(rows) : At(rows[i], 1) = id}
    IN  IF hits = {} THEN -1 ELSE Min(hits)

\* headers.forEach((header, index) => { rec[header] = row[index]; }): a later
\* column of the same header name overwrites an earlier one.
ZipRecord(headers, row) ==
    [h \in {headers[i] : i \in 1..Len(headers)} |->
        At(row, Max({i \in 1..Len(headers) : headers[i] = h}))]

\* ... rec[header] = row[index] || '';
ZipRecordFilled(headers, row) ==
    [h \in {headers[i] : i \in 1..Len(headers)} |->
        Or(At(row, Max({i \in 1..Len(headers) : headers[i] = h})), "")]

\* GET /list of Departments and of Employees: the `data` of the response.
ListPlain(rows) ==
    IF Len(rows) <= 1 THEN <<>>
    ELSE [i \in 1..(Len(rows) - 1) |-> ZipRecord(rows[1], rows[i + 1])]

\* GET /list of Students.
ListStudents(rows) ==
    IF Len(rows) <= 1 THEN <<>>
    ELSE [i \in 1..(Len(rows) - 1) |-> ZipRecordFilled(rows[1], rows[i + 1])]

ListAll(e, rows) ==
    IF e = "Students" THEN ListStudents(rows) ELSE ListPlain(rows)

\* headers.indexOf('DepartmentID'), 1-based; -1 when there is none.
IndexOf(headers, name) ==
    LET hits == {i \in 1..Len(headers) : headers[i] = name}
    IN  IF hits = {} THEN -1 ELSE Min(hits)

\* row[departmentIdIndex + 1] in place of row[departmentIdIndex]: the 0-based
\* index used as a 1-based column.
FilterRowsNextColumn(rows, idx, value) ==
    SelectSeq(SubSeq(rows, 2, Len(rows)), LAMBDA row : At(row, idx + 1) = value)

\* rows.slice(1).filter(row => row[departmentIdIndex] === departmentId)
FilterRows(rows, idx, value) ==
    SelectSeq(SubSeq(rows, 2, Len(rows)), LAMBDA row : At(row, idx) = value)

\* GET /list/:departmentId of Students: <<status, data>>.
ListByDepartment(rows, departmentId) ==
    IF Len(rows) <= 1 THEN <<200, <<>>>>
    ELSE LET departmentIdIndex == IndexOf(rows[1], "DepartmentID")
             kept == FilterRows(rows, departmentIdIndex, departmentId)
         IN  IF departmentIdIndex = -1 THEN <<500, <<>>>>
             ELSE <<200, [i \in 1..Len(kept) |->
                            ZipRecordFilled(rows[1], kept[i])]>>

----------------------------------------------------------------------------
(* File movement log: the pure parts of the handlers *)

FilesHeader == <<"FileID", "FileName", "Description", "OriginatingDepartment",
                 "CreatedBy", "CreatedAt", "QRCodeUrl">>
MovementsHeader == <<"Timestamp", "FileID", "Action", "FromDepartment",
                     "ToDepartment", "User", "WorkDone", "WorkToBeDone",
                     "Remarks">>

RegisterFields == {"fileName", "description", "originatingDepartment",
                   "createdBy"}

\* if (!fileName || !originatingDepartment || !createdBy) return 400
RegisterInvalid(b) ==
    ~Truthy(b.fileName) \/ ~Truthy(b.originatingDepartment)
    \/ ~Truthy(b.createdBy)
\* The 400 test of /forward with a test that Files has the file id.
ForwardInvalidUnlessRegistered(b) ==
    \/ ~Truthy(b.fileId) \/ ~Truthy(b.fromDepartment)
    \/ ~Truthy(b.toDepartment) \/ ~Truthy(b.forwardedBy)
    \/ \A i \in 2..Len(sheet["Files"]) : sheet["Files"][i][1] # b.fileId

ForwardInvalid(b) ==
    \/ ~Truthy(b.fileId) \/ ~Truthy(b.fromDepartment)
    \/ ~Truthy(b.toDepartment) \/ ~Truthy(b.forwardedBy)
ReceiveInvalid(b) ==
    ~Truthy(b.fileId) \/ ~Truthy(b.receivingDepartment)
    \/ ~Truthy(b.receivedBy)

\* The row of the first append of /register (tab Files).
FilesRow(fileId, b, ts, qrCodeUrl) ==
    <<fileId, b.fileName, Or(b.description, ""), b.originatingDepartment,
      b.createdBy, ts, qrCodeUrl>>
\* The row of /register with the file id and the timestamp in each other's
\* column.
RegisteredRowSwapped(fileId, b, ts) ==
    <<fileId, ts, "REGISTERED", "", b.originatingDepartment, b.createdBy,
      "", "", "File created.">>

\* The row of the second append of /register (tab Movements).
RegisteredRow(fileId, b, ts) ==
    <<ts, fileId, "REGISTERED", "", b.originatingDepartment, b.createdBy,
      "", "", "File created.">>
ForwardedRow(b, ts) ==
    <<ts, b.fileId, "FORWARDED", b.fromDepartment, b.toDepartment,
      b.forwardedBy, b.workDone, b.workToBeDone, b.remarks>>
\* The row of /receive with the action of /forward left in it.
ReceivedRowAsForwarded(b, ts) ==
    <<ts, b.fileId, "FORWARDED", "", b.receivingDepartment, b.receivedBy,
      "", "", b.remarks>>

ReceivedRow(b, ts) ==
    <<ts, b.fileId, "RECEIVED", "", b.receivingDepartment, b.receivedBy,
      "", "", b.remarks>>

\* rec.name in JavaScript: undefined when the object has no such key.
Prop(rec, name) == IF name \in DOMAIN rec THEN rec[name] ELSE undefined

\* The matching rows taken from the last row of the tab upwards: the newest
\* movement first.
FileHistoryRowsNewestFirst(rows, fileId) ==
    LET kept == SelectSeq(SubSeq(rows, 2, Len(rows)),
                          LAMBDA row : At(row, 2) = fileId)
    IN  [i \in 1..Len(kept) |-> kept[Len(kept) + 1 - i]]

\* rows.slice(1).filter(row => row[1] === fileId)
FileHistoryRows(rows, fileId) ==
    SelectSeq(SubSeq(rows, 2, Len(rows)), LAMBDA row : At(row, 2) = fileId)

NoDetails ==
    [currentStatus |-> undefined, currentLocation |-> undefined,
     lastUpdated |-> undefined]

\* history[0] in place of history[history.length - 1]: the first row wins.
FileStatusFirstWins(rows, fileId) ==
    IF Len(rows) <= 1
    THEN [status |-> 404, details |-> NoDetails, history |-> <<>>]
    ELSE LET fileHistoryRows == FileHistoryRows(rows, fileId)
             history == [i \in 1..Len(fileHistoryRows) |->
                           ZipRecord(rows[1], fileHistoryRows[i])]
             latestStatus == history[1]
         IN  IF Len(fileHistoryRows) = 0
             THEN [status |-> 404, details |-> NoDetails, history |-> <<>>]
             ELSE [status |-> 200,
                   details |->
                     [currentStatus |-> Prop(latestStatus, "Action"),
                      currentLocation |-> Prop(latestStatus, "ToDepartment"),
                      lastUpdated |-> Prop(latestStatus, "Timestamp")],
                   history |-> history]

\* GET /status/:fileId over the rows of Movements: status code, details and
\* history of the response.
FileStatus(rows, fileId) ==
    IF Len(rows) <= 1
    THEN [status |-> 404, details |-> NoDetails, history |-> <<>>]
    ELSE LET fileHistoryRows == FileHistoryRows(rows, fileId)
             history == [i \in 1..Len(fileHistoryRows) |->
                           ZipRecord(rows[1], fileHistoryRows[i])]
             latestStatus == history[Len(history)]
         IN  IF Len(fileHistoryRows) = 0
             THEN [status |-> 404, details |-> NoDetails, history |-> <<>>]
             ELSE [status |-> 200,
                   details |->
                     [currentStatus |-> Prop(latestStatus, "Action"),
                      currentLocation |-> Prop(latestStatus, "ToDepartment"),
                      lastUpdated |-> Prop(latestStatus, "Timestamp")],
                   history |-> history]

----------------------------------------------------------------------------
(* Bus log and generator log: the pure parts of the handlers *)

BusHeader == <<"Timestamp", "Type", "TripID", "Km", "PhotoUrl", "StartLocation",
               "EndLocation", "DriverID", "StartTime", "EndTime", "Remarks">>
GenHeader == <<"Timestamp", "Type", "RunID", "FuelLevel", "PhotoUrl",
               "Location", "OperatorID", "ScheduledStart", "ScheduledEnd",
               "Remarks">>

BusOps == {"start-trip", "end-trip", "create-trip"}
GenOps == {"start-run", "end-run", "create-log"}
\* The operations that take an attachment (upload.single(...)).
UploadOps == {"start-trip", "end-trip", "start-run", "end-run"}

\* The body fields each handler reads; "file" is req.file.
LogFields(op) ==
    CASE op = "start-trip" -> {"startingKm", "tripId", "file"}
      [] op = "end-trip" -> {"endingKm", "remarks", "tripId", "file"}
      [] op = "create-trip" -> {"tripId", "startLocation", "endLocation",
                                "driverId", "startTime", "endTime"}
      [] op = "start-run" -> {"startingFuelLevel", "runId", "file"}
      [] op = "end-run" -> {"endingFuelLevel", "remarks", "runId", "file"}
      [] op = "create-log" -> {"runId", "location", "operatorId",
                               "scheduledStartTime", "scheduledEndTime"}

\* The handlers without their second test: the attachment is not looked at
\* before the upload.
LogInvalidFieldsOnly(op, b) ==
    CASE op = "start-trip" -> ~Truthy(b.startingKm) \/ ~Truthy(b.tripId)
      [] op = "end-trip" -> ~Truthy(b.endingKm) \/ ~Truthy(b.tripId)
      [] op = "create-trip" ->
           \/ ~Truthy(b.tripId) \/ ~Truthy(b.startLocation)
           \/ ~Truthy(b.endLocation) \/ ~Truthy(b.driverId)
           \/ ~Truthy(b.startTime) \/ ~Truthy(b.endTime)
      [] op = "start-run" -> ~Truthy(b.startingFuelLevel) \/ ~Truthy(b.runId)
      [] op = "end-run" -> ~Truthy(b.endingFuelLevel) \/ ~Truthy(b.runId)
      [] op = "create-log" ->
           \/ ~Truthy(b.runId) \/ ~Truthy(b.location)
           \/ ~Truthy(b.operatorId) \/ ~Truthy(b.scheduledStartTime)
           \/ ~Truthy(b.scheduledEndTime)

\* The two `return res.status(400)` tests of a start/end handler, the one
\* of a create handler.
LogInvalid(op, b) ==
    CASE op = "start-trip" ->
           \/ ~Truthy(b.startingKm) \/ ~Truthy(b.tripId)
           \/ ~Truthy(b.file)
      [] op = "end-trip" ->
           \/ ~Truthy(b.endingKm) \/ ~Truthy(b.tripId)
           \/ ~Truthy(b.file)
      [] op = "create-trip" ->
           \/ ~Truthy(b.tripId) \/ ~Truthy(b.startLocation)
           \/ ~Truthy(b.endLocation) \/ ~Truthy(b.driverId)
           \/ ~Truthy(b.startTime) \/ ~Truthy(b.endTime)
      [] op = "start-run" ->
           \/ ~Truthy(b.startingFuelLevel) \/ ~Truthy(b.runId)
           \/ ~Truthy(b.file)
      [] op = "end-run" ->
           \/ ~Truthy(b.endingFuelLevel) \/ ~Truthy(b.runId)
           \/ ~Truthy(b.file)
      [] op = "create-log" ->
           \/ ~Truthy(b.runId) \/ ~Truthy(b.location)
           \/ ~Truthy(b.operatorId) \/ ~Truthy(b.scheduledStartTime)
           \/ ~Truthy(b.scheduledEndTime)

\* The row each handler appends to Sheet1; link is driveResponse.webViewLink.
LogRow(op, b, ts, link) ==
    CASE op = "start-trip" -> <<ts, "START", b.tripId, b.startingKm, link>>
      [] op = "end-trip" ->
           <<ts, "END", b.tripId, b.endingKm, link, "", "", "", "", "",
             Or(b.remarks, "")>>
      [] op = "create-trip" ->
           <<ts, "CREATE", b.tripId, "", "", b.startLocation, b.endLocation,
             b.driverId, b.startTime, b.endTime>>
      [] op = "start-run" ->
           <<ts, "START", b.runId, b.startingFuelLevel, link>>
      [] op = "end-run" ->
           <<ts, "END", b.runId, b.endingFuelLevel, link, "", "", "", "",
             Or(b.remarks, "")>>
      [] op = "create-log" ->
           <<ts, "CREATE", b.runId, "", "", b.location, b.operatorId,
             b.scheduledStartTime, b.scheduledEndTime>>

\* res.status(...) of the handler's success response.
LogSuccess(op) == IF op \in {"end-trip", "end-run"} THEN 200 ELSE 201

\* The tab the requests of a log service append to.
LogTable(s) == IF s = "BusLog" THEN "BusSheet1" ELSE "GenSheet1"

\* drive.files.create answers { id, webViewLink } for the n-th blob.
BlobId(n) == "d" \o ToString(n)
WebViewLink(id) == "link-" \o id

----------------------------------------------------------------------------
(* Requests *)

\* Cell and field values the requests carry.
Val == {"a", "b"}

\* base with the one field f set to v.
With(base, f, v) == [base EXCEPT ![f] = v]

\* A request body with every field of F sent as v.
Full(F, v) == [f \in F |-> v]

\* The complete body, and the bodies that leave one field out or send it
\* empty.
OneMissing(base, F) ==
    {base} \cup {With(base, f, v) : f \in F, v \in {undefined, ""}}

\* Bodies of POST /create: a complete body of one value, or a complete body
\* with one field left out or sent empty.
CreateBodies(e) ==
    {Full(CreateFields(e), v) : v \in Val}
    \cup OneMissing(Full(CreateFields(e), "a"), CreateFields(e))

\* Bodies of POST /update/:id: no field, or one field sent, empty or not;
\* and, for Students, the course sent as the text DepartmentID.
UpdateBodies(e) ==
    {Full(UpdateFields(e), undefined)}
    \cup {With(Full(UpdateFields(e), undefined), f, v) :
            f \in UpdateFields(e), v \in {"", "b"}}
    \cup (IF e = "Students"
          THEN {With(Full(UpdateFields(e), undefined), "course",
                     "DepartmentID")}
          ELSE {})

\* The values of column col in the data rows of a grid.
Column(grid, col) == {grid[i][col] : i \in 2..Len(grid)}

\* The :id of an update request: any non-empty cell of column A (the header
\* cell included), or a key no row carries.
UpdateKeys(grid) == ({grid[1][1]} \cup Column(grid, 1) \cup {"nokey"}) \ {""}

\* The :departmentId of a filtered list request.
FilterValues == Val \cup {"nodept"}

\* Bodies of POST /register.
RegisterBodies == OneMissing(Full(RegisterFields, "a"), RegisterFields)

\* The file identifiers requests name: those of the two tabs, and one that
\* was never registered.
FileIds == (Column(sheet["Files"], 1) \cup Column(sheet["Movements"], 2)
            \cup {"f0"}) \ {""}

ForwardBody(id) ==
    [fileId |-> id, fromDepartment |-> "a", toDepartment |-> "b",
     forwardedBy |-> "a", workDone |-> "a", workToBeDone |-> "a",
     remarks |-> "a"]
ReceiveBody(id) ==
    [fileId |-> id, receivingDepartment |-> "b", receivedBy |-> "b",
     remarks |-> undefined]

\* Bodies of POST /forward and POST /receive: complete for every known
\* identifier, and with one required field left out or sent empty.
ForwardBodies ==
    {ForwardBody(id) : id \in FileIds}
    \cup OneMissing(ForwardBody("f0"), {"fileId", "fromDepartment",
                                        "toDepartment", "forwardedBy"})
ReceiveBodies ==
    {ReceiveBody(id) : id \in FileIds}
    \cup OneMissing(ReceiveBody("f0"), {"fileId", "receivingDepartment",
                                        "receivedBy"})

\* Bodies of the bus and generator log: complete, with one field left out
\* or sent empty, or without the attachment.
LogBodies(op) ==
    {b \in OneMissing(Full(LogFields(op), "a"), LogFields(op)) :
        "file" \in LogFields(op) => b.file # ""}

\* Bodies of two concurrent request streams.
RaceCreateBodies(e) == {Full(CreateFields(e), "a")}
RaceUpdateBodies(e) ==
    {With(Full(UpdateFields(e), undefined), f, "b") : f \in UpdateFields(e)}

Procs == {1, 2}

\* A request slot with no request in it.
Idle ==
    [op |-> "none", pc |-> "idle", key |-> "", body |-> <<>>, id |-> "",
     ts |-> "", rowIndex |-> 0, existingData |-> <<>>, row |-> <<>>,
     rows |-> <<>>, blob |-> "", status |-> 0, data |-> <<>>,
     details |-> NoDetails, calls |-> <<>>]

\* One remote call, as the request's log of calls records it: the call, its
\* outcome and the clock value at which the service answered it.
Call(api, ok) == [api |-> api, ok |-> ok, at |-> now]

\* res.status(code)...: the handler is over.
Respond(r, code) == [r EXCEPT !.pc = "done", !.status = code]

\* r after one more remote call.
Called(r, api, ok) == [r EXCEPT !.calls = Append(@, Call(api, ok))]

\* A remote call is being answered: it took one tick of the clock.
Served == left > 0 /\ left' = left - 1 /\ now' = now + 1

\* The handler runs without a remote call: no time passes.
Local == left > 0 /\ UNCHANGED <<left, now>>

----------------------------------------------------------------------------
(* POST /create of Departments, Employees, Students *)

\* The handler up to its first await: validation, uuidv4(), new Date().
CreateRequest(p, bodies) ==
    /\ svc \in Entities /\ req[p].pc = "idle" /\ Local
    /\ \E b \in bodies :
         LET r == [Idle EXCEPT !.op = "create", !.body = b]
         IN  IF CreateInvalid(svc, b)
             THEN /\ req' = [req EXCEPT ![p] = Respond(r, 400)]
                  /\ UNCHANGED nextId
             ELSE /\ req' = [req EXCEPT ![p] =
                        [r EXCEPT !.pc = "append", !.id = Uuid(nextId),
                                  !.ts = ISO(now),
                                  !.row = CreateRow(svc, Uuid(nextId), b,
                                                    ISO(now))]]
                  /\ nextId' = nextId + 1
    /\ UNCHANGED <<sheet, drive, svc, answered>>

\* await sheets.spreadsheets.values.append(...); res.status(201)
CreateAppend(p) ==
    /\ req[p].op = "create" /\ req[p].pc = "append" /\ Served
    /\ sheet' = [sheet EXCEPT ![svc] = ValuesAppend(@, Width(svc), req[p].row)]
    /\ req' = [req EXCEPT ![p] = Respond(Called(@, "append", TRUE), 201)]
    /\ answered' = Append(answered, [op |-> "create", id |-> req[p].id])
    /\ UNCHANGED <<drive, nextId, svc>>

----------------------------------------------------------------------------
(* POST /update/:id of Departments, Employees, Students *)

\* The handler up to the await inside findRowIndexById.
UpdateRequest(p, keys, bodies) ==
    /\ svc \in Entities /\ req[p].pc = "idle" /\ Local
    /\ \E k \in keys, b \in bodies :
         req' = [req EXCEPT ![p] =
                   [Idle EXCEPT !.op = "update", !.pc = "find", !.key = k,
                                !.body = b]]
    /\ UNCHANGED <<sheet, drive, nextId, svc, answered>>

\* findRowIndexById answers; 404 when it returns -1.
UpdateFind(p) ==
    /\ req[p].op = "update" /\ req[p].pc = "find" /\ Served
    /\ LET rowIndex == FindRowIndexById(ValuesGet(sheet[svc], 1, 1), req[p].key)
           r == [Called(req[p], "get", TRUE) EXCEPT !.rowIndex = rowIndex]
       IN  req' = [req EXCEPT ![p] =
                     IF rowIndex = -1 THEN Respond(r, 404)
                     ELSE [r EXCEPT !.pc = "read"]]
    /\ UNCHANGED <<sheet, drive, nextId, svc, answered>>

\* The existing row is read and updatedRow is built from it; reading
\* values[0] of an absent `values` throws, which the handler turns into 500.
UpdateRead(p) ==
    /\ req[p].op = "update" /\ req[p].pc = "read" /\ Served
    /\ LET values == RowGet(sheet[svc], req[p].rowIndex, 1, Width(svc))
           r == Called(req[p], "get", TRUE)
       IN  req' = [req EXCEPT ![p] =
                     IF values = <<>> THEN Respond(r, 500)
                     ELSE [r EXCEPT !.pc = "write",
                                    !.existingData = values[1],
                                    !.ts = ISO(now'),
                                    !.row = UpdatedRow(svc, r.key, r.body,
                                                       values[1], ISO(now'))]]
    /\ UNCHANGED <<sheet, drive, nextId, svc, answered>>

\* await sheets.spreadsheets.values.update(...); res.status(200)
UpdateWrite(p) ==
    /\ req[p].op = "update" /\ req[p].pc = "write" /\ Served
    /\ sheet' = [sheet EXCEPT ![svc] =
                   ValuesUpdate(@, req[p].rowIndex, req[p].row)]
    /\ req' = [req EXCEPT ![p] = Respond(Called(@, "update", TRUE), 200)]
    /\ UNCHANGED <<drive, nextId, svc, answered>>

----------------------------------------------------------------------------
(* GET /list and GET /list/:departmentId *)

ListRequest(p) ==
    /\ svc \in Entities /\ req[p].pc = "idle" /\ Local
    /\ req' = [req EXCEPT ![p] = [Idle EXCEPT !.op = "list", !.pc = "get"]]
    /\ UNCHANGED <<sheet, drive, nextId, svc, answered>>

ListGet(p) ==
    /\ req[p].op = "list" /\ req[p].pc = "get" /\ Served
    /\ LET rows == ValuesGet(sheet[svc], 1, Width(svc))
       IN  req' = [req EXCEPT ![p] =
                     Respond([Called(@, "get", TRUE) EXCEPT
                                !.rows = rows,
                                !.data = ListAll(svc, rows)], 200)]
    /\ UNCHANGED <<sheet, drive, nextId, svc, answered>>

ListByRequest(p) ==
    /\ svc = "Students" /\ req[p].pc = "idle" /\ Local
    /\ \E v \in FilterValues :
         req' = [req EXCEPT ![p] =
                   [Idle EXCEPT !.op = "listBy", !.pc = "get", !.key = v]]
    /\ UNCHANGED <<sheet, drive, nextId, svc, answered>>

ListByGet(p) ==
    /\ req[p].op = "listBy" /\ req[p].pc = "get" /\ Served
    /\ LET rows == ValuesGet(sheet[svc], 1, Width(svc))
           res == ListByDepartment(rows, req[p].key)
       IN  req' = [req EXCEPT ![p] =
                     Respond([Called(@, "get", TRUE) EXCEPT
                                !.rows = rows, !.data = res[2]], res[1])]
    /\ UNCHANGED <<sheet, drive, nextId, svc, answered>>

----------------------------------------------------------------------------
(* uploadToGoogleDrive *)

\* await drive.files.create(...) answers: the blob exists, not yet public.
DriveCreate(p) ==
    /\ req[p].pc = "upload" /\ Served
    /\ drive' = Append(drive, [id |-> BlobId(Len(drive) + 1), public |-> FALSE])
    /\ req' = [req EXCEPT ![p] =
                 [Called(@, "drive.create", TRUE) EXCEPT
                    !.pc = "permission", !.blob = BlobId(Len(drive) + 1)]]
    /\ UNCHANGED <<sheet, nextId, svc, answered>>

\* An upload that is tried again when drive.files.create rejects.
DriveCreateFailsRetry(p) ==
    /\ req[p].pc = "upload" /\ Served
    /\ req' = [req EXCEPT ![p] = Called(@, "drive.create", FALSE)]
    /\ UNCHANGED <<sheet, drive, nextId, svc, answered>>

\* drive.files.create rejects: uploadToGoogleDrive returns null, and the
\* handler answers 500.
DriveCreateFails(p) ==
    /\ req[p].pc = "upload" /\ Served
    /\ req' = [req EXCEPT ![p] = Respond(Called(@, "drive.create", FALSE), 500)]
    /\ UNCHANGED <<sheet, drive, nextId, svc, answered>>

\* await drive.permissions.create(...) answers: uploadToGoogleDrive returns
\* data, and the handler builds the row it appends next.
DrivePermission(p) ==
    /\ req[p].pc = "permission" /\ Served
    /\ drive' = [i \in 1..Len(drive) |->
                   IF drive[i].id = req[p].blob
                   THEN [drive[i] EXCEPT !.public = TRUE] ELSE drive[i]]
    /\ LET r == Called(req[p], "drive.permission", TRUE)
           link == WebViewLink(r.blob)
       IN  req' = [req EXCEPT ![p] =
                     IF r.op = "register"
                     THEN [r EXCEPT !.pc = "append",
                                    !.row = FilesRow(r.id, r.body, r.ts, link)]
                     ELSE [r EXCEPT !.pc = "append", !.ts = ISO(now'),
                                    !.row = LogRow(r.op, r.body, ISO(now'),
                                                   link)]]
    /\ UNCHANGED <<sheet, nextId, svc, answered>>

\* uploadToGoogleDrive with the permission outside its try: the rejection is
\* swallowed and data is returned, so the handler goes on to its append.
DrivePermissionFailsIgnored(p) ==
    /\ req[p].pc = "permission" /\ Served
    /\ LET r == Called(req[p], "drive.permission", FALSE)
           link == WebViewLink(r.blob)
       IN  req' = [req EXCEPT ![p] =
                     IF r.op = "register"
                     THEN [r EXCEPT !.pc = "append",
                                    !.row = FilesRow(r.id, r.body, r.ts, link)]
                     ELSE [r EXCEPT !.pc = "append", !.ts = ISO(now'),
                                    !.row = LogRow(r.op, r.body, ISO(now'),
                                                   link)]]
    /\ UNCHANGED <<sheet, drive, nextId, svc, answered>>

\* drive.permissions.create rejects: uploadToGoogleDrive returns null, the
\* handler answers 500, and the blob stays in the folder.
DrivePermissionFails(p) ==
    /\ req[p].pc = "permission" /\ Served
    /\ req' = [req EXCEPT ![p] =
                 Respond(Called(@, "drive.permission", FALSE), 500)]
    /\ UNCHANGED <<sheet, drive, nextId, svc, answered>>

----------------------------------------------------------------------------
(* POST /register, /forward, /receive and GET /status/:fileId *)

\* The handler up to its first await, that of qrcode.toBuffer(fileId):
\* validation, uuidv4(), new Date().
RegisterRequest(p) ==
    /\ svc = "FileLog" /\ req[p].pc = "idle" /\ Local
    /\ \E b \in RegisterBodies :
         LET r == [Idle EXCEPT !.op = "register", !.body = b]
         IN  IF RegisterInvalid(b)
             THEN /\ req' = [req EXCEPT ![p] = Respond(r, 400)]
                  /\ UNCHANGED nextId
             ELSE /\ req' = [req EXCEPT ![p] =
                        [r EXCEPT !.pc = "qrcode", !.id = Uuid(nextId),
                                  !.ts = ISO(now)]]
                  /\ nextId' = nextId + 1
    /\ UNCHANGED <<sheet, drive, svc, answered>>

\* await qrcode.toBuffer(fileId) resolves: the handler builds qrFile and
\* calls uploadToGoogleDrive, which issues drive.files.create. No remote
\* call has been made.
QrCode(p) ==
    /\ req[p].op = "register" /\ req[p].pc = "qrcode" /\ Local
    /\ req' = [req EXCEPT ![p].pc = "upload"]
    /\ UNCHANGED <<sheet, drive, nextId, svc, answered>>

\* qrcode.toBuffer rejects: the handler's catch answers 500 without a remote
\* call and without a tick of the clock. The rejection is counted against
\* the calls of the run, which keeps the number of registrations of a run
\* finite.
QrCodeFails(p) ==
    /\ req[p].op = "register" /\ req[p].pc = "qrcode"
    /\ left > 0 /\ left' = left - 1 /\ now' = now
    /\ req' = [req EXCEPT ![p] = Respond(@, 500)]
    /\ UNCHANGED <<sheet, drive, nextId, svc, answered>>

\* 1. Add to the 'Files' master list.
RegisterFilesAppend(p) ==
    /\ req[p].op = "register" /\ req[p].pc = "append" /\ Served
    /\ sheet' = [sheet EXCEPT !["Files"] =
                   ValuesAppend(@, Width("Files"), req[p].row)]
    /\ req' = [req EXCEPT ![p] =
                 [Called(@, "append", TRUE) EXCEPT
                    !.pc = "append2",
                    !.row = RegisteredRow(req[p].id, req[p].body,
                                          req[p].ts)]]
    /\ UNCHANGED <<drive, nextId, svc, answered>>

\* 2. Add the first entry to the 'Movements' log; res.status(201)
RegisterMovementsAppend(p) ==
    /\ req[p].op = "register" /\ req[p].pc = "append2" /\ Served
    /\ sheet' = [sheet EXCEPT !["Movements"] =
                   ValuesAppend(@, Width("Movements"), req[p].row)]
    /\ req' = [req EXCEPT ![p] = Respond(Called(@, "append", TRUE), 201)]
    /\ answered' = Append(answered, [op |-> "register", id |-> req[p].id])
    /\ UNCHANGED <<drive, nextId, svc>>

\* POST /forward up to its await.
ForwardRequest(p) ==
    /\ svc = "FileLog" /\ req[p].pc = "idle" /\ Local
    /\ \E b \in ForwardBodies :
         LET r == [Idle EXCEPT !.op = "forward", !.body = b]
         IN  req' = [req EXCEPT ![p] =
                       IF ForwardInvalid(b) THEN Respond(r, 400)
                       ELSE [r EXCEPT !.pc = "append", !.key = b.fileId,
                                      !.ts = ISO(now),
                                      !.row = ForwardedRow(b, ISO(now))]]
    /\ UNCHANGED <<sheet, drive, nextId, svc, answered>>

\* POST /receive up to its await.
ReceiveRequest(p) ==
    /\ svc = "FileLog" /\ req[p].pc = "idle" /\ Local
    /\ \E b \in ReceiveBodies :
         LET r == [Idle EXCEPT !.op = "receive", !.body = b]
         IN  req' = [req EXCEPT ![p] =
                       IF ReceiveInvalid(b) THEN Respond(r, 400)
                       ELSE [r EXCEPT !.pc = "append", !.key = b.fileId,
                                      !.ts = ISO(now),
                                      !.row = ReceivedRow(b, ISO(now))]]
    /\ UNCHANGED <<sheet, drive, nextId, svc, answered>>

\* The append of /forward or /receive answers; res.status(200)
MovementAppend(p) ==
    /\ req[p].op \in {"forward", "receive"} /\ req[p].pc = "append" /\ Served
    /\ sheet' = [sheet EXCEPT !["Movements"] =
                   ValuesAppend(@, Width("Movements"), req[p].row)]
    /\ req' = [req EXCEPT ![p] = Respond(Called(@, "append", TRUE), 200)]
    /\ answered' = Append(answered, [op |-> req[p].op, id |-> req[p].key])
    /\ UNCHANGED <<drive, nextId, svc>>

StatusRequest(p) ==
    /\ svc = "FileLog" /\ req[p].pc = "idle" /\ Local
    /\ \E id \in FileIds :
         req' = [req EXCEPT ![p] =
                   [Idle EXCEPT !.op = "status", !.pc = "get", !.key = id]]
    /\ UNCHANGED <<sheet, drive, nextId, svc, answered>>

StatusGet(p) ==
    /\ req[p].op = "status" /\ req[p].pc = "get" /\ Served
    /\ LET rows == ValuesGet(sheet["Movements"], 1, Width("Movements"))
           res == FileStatus(rows, req[p].key)
       IN  req' = [req EXCEPT ![p] =
                     Respond([Called(@, "get", TRUE) EXCEPT
                                !.rows = rows, !.data = res.history,
                                !.details = res.details], res.status)]
    /\ UNCHANGED <<sheet, drive, nextId, svc, answered>>

----------------------------------------------------------------------------
(* Bus log and generator log *)

\* A handler of the bus or generator log up to its first await.
LogRequest(p) ==
    /\ svc \in {"BusLog", "GenLog"} /\ req[p].pc = "idle" /\ Local
    /\ \E op \in (IF svc = "BusLog" THEN BusOps ELSE GenOps) :
         \E b \in LogBodies(op) :
           LET r == [Idle EXCEPT !.op = op, !.body = b]
           IN  req' = [req EXCEPT ![p] =
                         IF LogInvalid(op, b) THEN Respond(r, 400)
                         ELSE IF op \in UploadOps THEN [r EXCEPT !.pc = "upload"]
                         ELSE [r EXCEPT !.pc = "append", !.ts = ISO(now),
                                        !.row = LogRow(op, b, ISO(now), "")]]
    /\ UNCHANGED <<sheet, drive, nextId, svc, answered>>

\* The append to Sheet1 answers; res.status(201) or res.status(200)
LogAppend(p) ==
    /\ req[p].op \in BusOps \cup GenOps /\ req[p].pc = "append" /\ Served
    /\ sheet' = [sheet EXCEPT ![LogTable(svc)] =
                   ValuesAppend(@, Width(LogTable(svc)), req[p].row)]
    /\ req' = [req EXCEPT ![p] =
                 Respond(Called(@, "append", TRUE), LogSuccess(req[p].op))]
    /\ UNCHANGED <<drive, nextId, svc, answered>>

----------------------------------------------------------------------------
(* Failure of a spreadsheet call, and the end of a request *)

\* The spreadsheet call a handler is waiting for at pc.
SheetApi(pc) ==
    CASE pc \in {"find", "read", "get"} -> "get"
      [] pc \in {"append", "append2"} -> "append"
      [] pc = "write" -> "update"

\* A catch that also deletes what the request uploaded: the 500 of a failed
\* spreadsheet call with the blob removed from the folder.
SheetCallFailsCleanup(p) ==
    /\ req[p].pc \in {"append", "append2", "find", "read", "write", "get"}
    /\ Served
    /\ req' = [req EXCEPT ![p] =
                 Respond(Called(@, SheetApi(req[p].pc), FALSE), 500)]
    /\ drive' = SelectSeq(drive, LAMBDA d : d.id # req[p].blob)
    /\ UNCHANGED <<sheet, nextId, svc, answered>>

\* An awaited spreadsheet call rejects: the handler's catch answers 500.
SheetCallFails(p) ==
    /\ req[p].pc \in {"append", "append2", "find", "read", "write", "get"}
    /\ Served
    /\ req' = [req EXCEPT ![p] =
                 Respond(Called(@, SheetApi(req[p].pc), FALSE), 500)]
    /\ UNCHANGED <<sheet, drive, nextId, svc, answered>>

\* The response has been sent; the slot takes the next request.
Finish(p) ==
    /\ req[p].pc = "done"
    /\ req' = [req EXCEPT ![p] = Idle]
    /\ UNCHANGED <<sheet, drive, now, nextId, svc, left, answered>>

----------------------------------------------------------------------------
(* Initial state and specifications *)

\* A row POST /create has appended at time 0, and a row entered in the
\* spreadsheet by hand that leaves its trailing cells empty.
DeptRows == <<<<"u1", "a", "", "a", "", ISO(0), ISO(0)>>,
              <<"x1", "a", "", "", "", "", "">>>>
EmpRows == <<<<"u2", "a", "a", "", "", "a", "", ISO(0), ISO(0)>>,
             <<"x2", "a", "b", "", "", "", "", "", "">>>>
StudRows == <<<<"u3", "a", "a", "a", "a", "a", "", "", ISO(0), ISO(0)>>,
              <<"x3", "a", "a", "b", "", "", "", "", "", "">>>>

\* The tabs: their header rows, and the entity tabs empty or not.
InitSheet(populated) ==
    [t \in Tables |->
        CASE t = "Departments" ->
               <<DeptHeader>> \o (IF populated THEN DeptRows ELSE <<>>)
          [] t = "Employees" ->
               <<EmpHeader>> \o (IF populated THEN EmpRows ELSE <<>>)
          [] t = "Students" ->
               <<StudHeader>> \o (IF populated THEN StudRows ELSE <<>>)
          [] t = "Files" -> <<FilesHeader>>
          [] t = "Movements" -> <<MovementsHeader>>
          [] t = "BusSheet1" -> <<BusHeader>>
          [] t = "GenSheet1" -> <<GenHeader>>]

\* Remote calls a run of requests to service s may make.
Budget(s) ==
    CASE s \in Entities -> MaxEntityCalls
      [] s = "FileLog" -> MaxFileCalls
      [] s \in {"BusLog", "GenLog"} -> MaxLogCalls

Init ==
    /\ \E populated \in BOOLEAN : sheet = InitSheet(populated)
    /\ drive = <<>>
    /\ now = 1
    /\ nextId = 4
    /\ svc \in Services
    /\ left = Budget(svc)
    /\ answered = <<>>
    /\ req = [p \in Procs |-> Idle]

\* The steps of the handlers once a request is in its slot.
EntityStep(p) ==
    \/ CreateAppend(p)
    \/ UpdateFind(p) \/ UpdateRead(p) \/ UpdateWrite(p)
    \/ ListGet(p)
    \/ SheetCallFails(p)

\* One request at a time, to any service.
Next ==
    \/ CreateRequest(1, CreateBodies(svc))
    \/ UpdateRequest(1, UpdateKeys(sheet[svc]), UpdateBodies(svc))
    \/ ListRequest(1) \/ ListByRequest(1) \/ ListByGet(1)
    \/ EntityStep(1) \/ Finish(1)
    \/ RegisterRequest(1) \/ ForwardRequest(1) \/ ReceiveRequest(1)
    \/ StatusRequest(1) \/ LogRequest(1)
    \/ QrCode(1) \/ QrCodeFails(1)
    \/ DriveCreate(1) \/ DriveCreateFails(1)
    \/ DrivePermission(1) \/ DrivePermissionFails(1)
    \/ RegisterFilesAppend(1) \/ RegisterMovementsAppend(1)
    \/ MovementAppend(1) \/ StatusGet(1) \/ LogAppend(1)

Spec == Init /\ [][Next]_vars

InitRace ==
    /\ sheet = InitSheet(TRUE)
    /\ drive = <<>>
    /\ now = 1
    /\ nextId = 4
    /\ svc \in Entities
    /\ left = 3 * Cardinality(Procs)
    /\ answered = <<>>
    /\ req = [p \in Procs |-> Idle]

\* Two concurrent requests to one of Departments, Employees, Students, each
\* making all its remote calls.
NextRace ==
    \E p \in Procs :
        \/ CreateRequest(p, RaceCreateBodies(svc))
        \/ UpdateRequest(p, UpdateKeys(sheet[svc]), RaceUpdateBodies(svc))
        \/ ListRequest(p)
        \/ EntityStep(p)

SpecRace == InitRace /\ [][NextRace]_vars

InitHistory ==
    /\ sheet = InitSheet(FALSE)
    /\ drive = <<>>
    /\ now = 1
    /\ nextId = 4
    /\ svc = "FileLog"
    /\ left = MaxHistoryCalls
    /\ answered = <<>>
    /\ req = [p \in Procs |-> Idle]

\* Requests to the file movement log, one at a time, whose awaited calls all
\* succeed.
NextHistory ==
    \/ RegisterRequest(1) \/ QrCode(1) \/ DriveCreate(1) \/ DrivePermission(1)
    \/ RegisterFilesAppend(1) \/ RegisterMovementsAppend(1)
    \/ ForwardRequest(1) \/ ReceiveRequest(1) \/ MovementAppend(1)
    \/ StatusRequest(1) \/ StatusGet(1)
    \/ Finish(1)

SpecHistory == InitHistory /\ [][NextHistory]_vars

\* The populated tabs with one more row entered by hand in each entity tab:
\* a second row under the identifier of the first record.
DuplicateSheet ==
    [InitSheet(TRUE) EXCEPT
       !["Departments"] = Append(@, <<"u1", "b", "b", "b", "b", "", "">>),
       !["Employees"] =
         Append(@, <<"u2", "b", "b", "b", "b", "b", "b", "", "">>),
       !["Students"] =
         Append(@, <<"u3", "b", "b", "b", "b", "b", "b", "b", "", "">>)]

InitDuplicate ==
    /\ sheet = DuplicateSheet
    /\ drive = <<>>
    /\ now = 1
    /\ nextId = 4
    /\ svc \in Entities
    /\ left = MaxEntityCalls
    /\ answered = <<>>
    /\ req = [p \in Procs |-> Idle]

\* Updates and listings, one at a time, of a tab in which two rows carry one
\* identifier.
NextDuplicate ==
    \/ UpdateRequest(1, UpdateKeys(sheet[svc]), UpdateBodies(svc))
    \/ UpdateFind(1) \/ UpdateRead(1) \/ UpdateWrite(1)
    \/ ListRequest(1) \/ ListGet(1)
    \/ Finish(1)

SpecDuplicate == InitDuplicate /\ [][NextDuplicate]_vars

\* Two concurrent requests to any one service, each handler step and each
\* failure of an awaited call included.
NextAll ==
    \E p \in Procs :
        \/ CreateRequest(p, RaceCreateBodies(svc))
        \/ UpdateRequest(p, UpdateKeys(sheet[svc]), RaceUpdateBodies(svc))
        \/ ListRequest(p) \/ ListByRequest(p) \/ ListByGet(p)
        \/ EntityStep(p)
        \/ RegisterRequest(p) \/ QrCode(p) \/ QrCodeFails(p)
        \/ DriveCreate(p) \/ DriveCreateFails(p)
        \/ DrivePermission(p) \/ DrivePermissionFails(p)
        \/ RegisterFilesAppend(p) \/ RegisterMovementsAppend(p)
        \/ ForwardRequest(p) \/ ReceiveRequest(p) \/ MovementAppend(p)
        \/ StatusRequest(p) \/ StatusGet(p)
        \/ LogRequest(p) \/ LogAppend(p)

SpecAll == Init /\ [][NextAll]_vars

----------------------------------------------------------------------------
(* The column layout the handlers' comments document, for the statements *)

\* DepartmentID, DepartmentName, Description, Location, InChargeEmployeeID,
\* CreatedAt, UpdatedAt: the column of each updatable field.
DeptColumns ==
    [departmentName |-> 2, description |-> 3, location |-> 4,
     inChargeEmployeeId |-> 5]
EmpColumns ==
    [employeeName |-> 2, departmentId |-> 3, email |-> 4, phone |-> 5,
     role |-> 6, responsibilities |-> 7]
StudColumns ==
    [studentName |-> 2, rollNumber |-> 3, departmentId |-> 4, course |-> 5,
     yearOfStudy |-> 6, email |-> 7, phone |-> 8]
ColumnOf(e) ==
    CASE e = "Departments" -> DeptColumns
      [] e = "Employees" -> EmpColumns
      [] e = "Students" -> StudColumns
CreatedAtColumn(e) == Width(e) - 1
UpdatedAtColumn(e) == Width(e)

\* The header names of the same layout.
HeaderOf(e) ==
    CASE e = "Departments" -> DeptHeader
      [] e = "Employees" -> EmpHeader
      [] e = "Students" -> StudHeader

\* The clock value a timestamp cell was written at.
IsTime(s) == \E n \in 0..now : ISO(n) = s
TimeOf(s) == CHOOSE n \in 0..now : ISO(n) = s

\* The fields a body supplies with a non-empty value.
Supplied(b) == {f \in DOMAIN b : b[f] # undefined /\ b[f] # ""}

\* Request p's successful write is the step being taken.
Writes(p) ==
    /\ req[p].op = "update" /\ req[p].pc = "write"
    /\ req'[p].pc = "done" /\ req'[p].status = 200

----------------------------------------------------------------------------
(* C1 *)

\* C1: when an update request writes its row back, every updatable cell of
\* the row holds the caller's value if one was supplied and is not empty, and
\* the cell's previous value otherwise; the identifier cell and the
\* created-at cell keep their values; the updated-at cell holds the time at
\* which the row was built.
C1_MergeKeepsOrReplaces ==
    [][\A p \in Procs :
         Writes(p) =>
           LET old == sheet[svc][req[p].rowIndex]
               new == sheet'[svc][req[p].rowIndex]
               b == req[p].body
           IN  /\ \A f \in DOMAIN b :
                    new[ColumnOf(svc)[f]] =
                      IF b[f] # undefined /\ b[f] # "" THEN b[f]
                      ELSE old[ColumnOf(svc)[f]]
               /\ new[1] = old[1]
               /\ new[CreatedAtColumn(svc)] = old[CreatedAtColumn(svc)]
               /\ new[UpdatedAtColumn(svc)] = ISO(now)]_vars

\* An update has written a row: the field it supplied holds the new value,
\* a field it sent empty and the fields it left out hold what they held.
C1_Witness ==
    \E p \in Procs :
      /\ req[p].op = "update" /\ req[p].status = 200
      /\ req[p].rowIndex >= 2
      /\ \E f \in DOMAIN req[p].body :
           /\ req[p].body[f] = "b"
           /\ At(req[p].existingData, ColumnOf(svc)[f]) = "a"
           /\ sheet[svc][req[p].rowIndex][ColumnOf(svc)[f]] = "b"
      /\ \E g \in DOMAIN req[p].body :
           /\ req[p].body[g] = undefined
           /\ sheet[svc][req[p].rowIndex][ColumnOf(svc)[g]] = "a"

----------------------------------------------------------------------------
(* C2 *)

\* The header name of each updatable field's column.
NameOf(e, f) == HeaderOf(e)[ColumnOf(e)[f]]

\* What a JSON record shows for a name: nothing and '' are both no value.
Shown(rec, name) == IF rec[name] = undefined THEN "" ELSE rec[name]

\* listAll of the service's table in spreadsheet sh.
Listed(sh) == ListAll(svc, ValuesGet(sh[svc], 1, Width(svc)))

\* C2: when an update request on the key of a record writes its row, a
\* listing of the table taken right after differs from the listing before in
\* the record of that key alone, and shows, in that record, every non-empty
\* value the caller supplied, for every field left out the value the
\* listing showed before, the same created-at, and an updated-at that is the
\* time of the update and later than the updated-at shown before.
C2_UpdateThenList ==
    [][\A p \in Procs :
         (Writes(p) /\ req[p].rowIndex >= 2) =>
           LET before == Listed(sheet)[req[p].rowIndex - 1]
               after == Listed(sheet')[req[p].rowIndex - 1]
               b == req[p].body
               id == HeaderOf(svc)[1]
           IN  /\ Len(Listed(sheet')) = Len(Listed(sheet))
               /\ \A j \in 1..Len(Listed(sheet)) :
                    j # req[p].rowIndex - 1 =>
                      Listed(sheet')[j] = Listed(sheet)[j]
               /\ before[id] = req[p].key
               /\ after[id] = req[p].key
               /\ \A f \in Supplied(b) : after[NameOf(svc, f)] = b[f]
               /\ \A f \in DOMAIN b :
                    b[f] = undefined =>
                      Shown(after, NameOf(svc, f)) = Shown(before, NameOf(svc, f))
               /\ Shown(after, "CreatedAt") = Shown(before, "CreatedAt")
               /\ after["UpdatedAt"] = ISO(now)
               /\ IsTime(Shown(before, "UpdatedAt")) =>
                    TimeOf(after["UpdatedAt"]) > TimeOf(before["UpdatedAt"])]_vars

\* A record was created with name a and department a, then updated with name
\* b alone: the listing has a record with its identifier, name b, department
\* a, the created-at of the creation and a later updated-at.
C2_Witness ==
    /\ svc \in {"Employees", "Students"}
    /\ sheet[svc][1] = HeaderOf(svc)
    /\ \E p \in Procs, i \in 1..Len(Listed(sheet)) :
         /\ req[p].op = "update" /\ req[p].status = 200
         /\ answered = <<[op |-> "create", id |-> req[p].key]>>
         /\ Supplied(req[p].body) \in {{"employeeName"}, {"studentName"}}
         /\ LET rec == Listed(sheet)[i]
            IN  /\ rec[HeaderOf(svc)[1]] = req[p].key
                /\ rec[HeaderOf(svc)[2]] = "b"
                /\ rec["DepartmentID"] = "a"
                /\ IsTime(rec["CreatedAt"]) /\ IsTime(rec["UpdatedAt"])
                /\ TimeOf(rec["UpdatedAt"]) > TimeOf(rec["CreatedAt"])

----------------------------------------------------------------------------
(* C3 *)

\* No row of the service's sheet has k in its first cell.
NoRowHas(k) == \A i \in 1..Len(sheet[svc]) : sheet[svc][i][1] # k

\* C3: when the lookup of an update request is answered and no row of the
\* sheet has the key, the request ends there with 404: it has made no call
\* but reads, and the spreadsheet is as it was.
C3_AbsentKeyIs404 ==
    [][\A p \in Procs :
         ( /\ req[p].op = "update" /\ req[p].pc = "find"
           /\ req'[p].calls # req[p].calls
           /\ req'[p].calls[Len(req'[p].calls)].ok
           /\ NoRowHas(req[p].key) ) =>
             /\ req'[p].pc = "done"
             /\ req'[p].status = 404
             /\ \A i \in 1..Len(req'[p].calls) : req'[p].calls[i].api = "get"
             /\ sheet' = sheet]_vars

\* An update of a key no row has was answered 404, in a table that has rows.
C3_Witness ==
    \E p \in Procs :
      /\ req[p].op = "update" /\ req[p].pc = "done" /\ req[p].status = 404
      /\ svc \in Entities /\ Len(sheet[svc]) > 1
      /\ NoRowHas(req[p].key)
      /\ Supplied(req[p].body) # {}

----------------------------------------------------------------------------
(* C4 *)

\* Request p is an update that was answered 200.
Updated(p) == req[p].op = "update" /\ req[p].pc = "done" /\ req[p].status = 200

\* The clock values at which p's row was read and p's row was written.
ReadAt(p) == req[p].calls[2].at
WriteAt(p) == req[p].calls[3].at

\* The cell of column c in the row a request read.
ReadCell(p, c) ==
    IF c <= Len(req[p].existingData) THEN req[p].existingData[c] ELSE ""

\* p and q updated the same key with disjoint fields, both read the row
\* before either wrote it, and q wrote last.
Raced(p, q) ==
    /\ p # q /\ Updated(p) /\ Updated(q)
    /\ req[p].key = req[q].key
    /\ Supplied(req[p].body) # {} /\ Supplied(req[q].body) # {}
    /\ Supplied(req[p].body) \cap Supplied(req[q].body) = {}
    /\ ReadAt(p) < WriteAt(q) /\ ReadAt(q) < WriteAt(p)
    /\ WriteAt(p) < WriteAt(q)

\* C4: when two update requests on one key with disjoint fields have both
\* read the row before either wrote it and both were answered 200, the row
\* holds the last writer's values in the last writer's fields and, in every
\* field of the first writer whose cell the last writer's read returned, what
\* the row held before either request: the first writer's change is lost. (A
\* cell past the end of the row the last writer read is not part of its
\* write, and keeps the first writer's value.)
C4_LostUpdate ==
    \A p, q \in Procs :
      Raced(p, q) =>
        LET row == sheet[svc][req[q].rowIndex]
        IN  /\ \A f \in Supplied(req[q].body) :
                 row[ColumnOf(svc)[f]] = req[q].body[f]
            /\ \A f \in Supplied(req[p].body) :
                 ColumnOf(svc)[f] <= Len(req[q].existingData) =>
                   /\ row[ColumnOf(svc)[f]] = ReadCell(p, ColumnOf(svc)[f])
                   /\ ReadCell(p, ColumnOf(svc)[f]) =
                        ReadCell(q, ColumnOf(svc)[f])

\* Two such requests have raced on a record: the first writer's value is not
\* in the row, the last writer's is.
C4_Witness ==
    \E p, q \in Procs :
      /\ Raced(p, q)
      /\ req[q].rowIndex >= 2
      /\ \E f \in Supplied(req[p].body) :
           /\ ColumnOf(svc)[f] <= Len(req[q].existingData)
           /\ sheet[svc][req[q].rowIndex][ColumnOf(svc)[f]] # req[p].body[f]
      /\ \E g \in Supplied(req[q].body) :
           sheet[svc][req[q].rowIndex][ColumnOf(svc)[g]] = req[q].body[g]

----------------------------------------------------------------------------
(* C5 *)

\* Request p is a listing by department whose read was answered.
ListedBy(p) ==
    /\ req[p].op = "listBy" /\ req[p].pc = "done"
    /\ req[p].calls[1].ok

\* The columns of the header row named DepartmentID.
DepartmentColumns ==
    {c \in 1..Width("Students") : sheet["Students"][1][c] = "DepartmentID"}

\* C5 as stated: whatever the table holds, a listing by department is
\* answered 200 with exactly the records of listAll whose property
\* DepartmentID is the value asked for, in the order of listAll.
C5_FilterIsSubsetOfListAll ==
    \A p \in Procs :
      ListedBy(p) =>
        /\ req[p].status = 200
        /\ req[p].data =
             SelectSeq(Listed(sheet),
                       LAMBDA rec : /\ "DepartmentID" \in DOMAIN rec
                                    /\ rec["DepartmentID"] = req[p].key)

\* C5, amended: a listing by department of a table that has records and no
\* DepartmentID header is answered 500; with exactly one DepartmentID header,
\* or no record at all, it is answered 200 with exactly the records of
\* listAll whose DepartmentID is the value asked for, in the order of listAll.
C5_FilterUnlessHeaderMissing ==
    \A p \in Procs :
      ListedBy(p) =>
        IF Listed(sheet) # <<>> /\ DepartmentColumns = {}
        THEN req[p].status = 500
        ELSE (Listed(sheet) = <<>> \/ Cardinality(DepartmentColumns) = 1) =>
               /\ req[p].status = 200
               /\ req[p].data =
                    SelectSeq(Listed(sheet),
                              LAMBDA rec : /\ "DepartmentID" \in DOMAIN rec
                                           /\ rec["DepartmentID"] = req[p].key)

\* A listing by department has kept some records of the table and dropped
\* others.
C5_Witness ==
    \E p \in Procs :
      /\ ListedBy(p) /\ req[p].status = 200
      /\ req[p].data # <<>>
      /\ Len(req[p].data) < Len(Listed(sheet))
      /\ Cardinality(DepartmentColumns) = 1
      /\ \A i \in 1..Len(req[p].data) :
           req[p].data[i]["DepartmentID"] = req[p].key

----------------------------------------------------------------------------
(* C6 *)

\* C6: a listing of Departments, Employees or Students answered 200 has one
\* record for each row the read returned after the header row, in that order,
\* and every record has a value for every header name: the row's cell, and
\* the empty string where the row is shorter than the header.
C6_ListFillsShortRows ==
    \A p \in Procs :
      (req[p].op = "list" /\ req[p].pc = "done" /\ req[p].status = 200) =>
        LET rows == req[p].rows
            data == req[p].data
        IN  /\ Len(data) = Max({Len(rows) - 1, 0})
            /\ \A i \in 1..Len(data) :
                 \A c \in 1..Len(rows[1]) :
                   data[i][rows[1][c]] =
                     IF c <= Len(rows[i + 1]) THEN rows[i + 1][c] ELSE ""

----------------------------------------------------------------------------
(* C7 *)

\* The rows of Movements after the header row that carry file id k.
MovementsOf(k) ==
    {i \in 2..Len(sheet["Movements"]) : sheet["Movements"][i][2] = k}

\* The n-th of them in table order.
NthMovementOf(k, n) ==
    CHOOSE i \in MovementsOf(k) :
      Cardinality({j \in MovementsOf(k) : j <= i}) = n

\* Request p asked for the status of a file and its read was answered.
StatusAnswered(p) ==
    /\ req[p].op = "status" /\ req[p].pc = "done"
    /\ req[p].calls[1].ok

\* C7: a status request is answered 404 when no row of Movements after the
\* header carries the file id; otherwise it is answered 200, its history has
\* one entry for each such row in table order, and its current status and
\* current location are the Action and ToDepartment cells of the last such
\* row of the table.
C7_StatusLastRowWins ==
    \A p \in Procs :
      StatusAnswered(p) =>
        LET k == req[p].key
            grid == sheet["Movements"]
        IN  IF MovementsOf(k) = {}
            THEN req[p].status = 404
            ELSE /\ req[p].status = 200
                 /\ req[p].details.currentStatus = grid[Max(MovementsOf(k))][3]
                 /\ req[p].details.currentLocation = grid[Max(MovementsOf(k))][5]
                 /\ Len(req[p].data) = Cardinality(MovementsOf(k))
                 /\ \A n \in 1..Len(req[p].data) :
                      LET row == grid[NthMovementOf(k, n)]
                      IN  /\ req[p].data[n]["Timestamp"] = row[1]
                          /\ req[p].data[n]["FileID"] = k
                          /\ req[p].data[n]["Action"] = row[3]
                          /\ req[p].data[n]["ToDepartment"] = row[5]

\* The status of a file with two movements of different kinds and places was
\* asked for and answered with the later one.
C7_Witness ==
    \E p \in Procs :
      /\ StatusAnswered(p) /\ req[p].status = 200
      /\ Len(req[p].data) = 2
      /\ req[p].data[1]["Action"] # req[p].data[2]["Action"]
      /\ req[p].data[1]["ToDepartment"] # req[p].data[2]["ToDepartment"]
      /\ req[p].details.currentStatus = req[p].data[2]["Action"]
      /\ req[p].details.currentLocation = req[p].data[2]["ToDepartment"]

----------------------------------------------------------------------------
(* C8 *)

\* The operations on file k that were answered with success, in the order of
\* their answers.
AnsweredFor(k) ==
    LET mine == SelectSeq(answered, LAMBDA a : a.id = k)
    IN  [i \in 1..Len(mine) |-> mine[i].op]

\* C8: when the operations answered with success on a file are its
\* registration, then a forward, then a receive, whatever was answered on
\* other files in between, a status request on the file is answered 200 with
\* a history of three entries, REGISTERED, FORWARDED and RECEIVED in that
\* order, and the current status RECEIVED.
C8_RegisterForwardReceive ==
    \A p \in Procs :
      ( /\ StatusAnswered(p)
        /\ AnsweredFor(req[p].key) = <<"register", "forward", "receive">> ) =>
          /\ req[p].status = 200
          /\ Len(req[p].data) = 3
          /\ req[p].data[1]["Action"] = "REGISTERED"
          /\ req[p].data[2]["Action"] = "FORWARDED"
          /\ req[p].data[3]["Action"] = "RECEIVED"
          /\ \A n \in 1..3 : req[p].data[n]["FileID"] = req[p].key
          /\ req[p].details.currentStatus = "RECEIVED"

\* The status of a file registered, forwarded and received was asked for,
\* after a movement of another file was logged between those of the file.
C8_Witness ==
    \E p \in Procs :
      /\ StatusAnswered(p)
      /\ AnsweredFor(req[p].key) = <<"register", "forward", "receive">>
      /\ Len(answered) > 3
      /\ answered[1].id = req[p].key
      /\ answered[Len(answered)].id = req[p].key
      /\ Len(req[p].data) = 3
      /\ req[p].details.currentStatus = "RECEIVED"

----------------------------------------------------------------------------
(* C9 *)

\* The fields and attachment ("file") each operation of each service
\* requires, as its 400 message names them; the other operations require
\* nothing of the body.
Required(s, op) ==
    CASE op = "create" /\ s = "Departments" -> {"departmentName", "location"}
      [] op = "create" /\ s = "Employees" ->
           {"employeeName", "departmentId", "role"}
      [] op = "create" /\ s = "Students" ->
           {"studentName", "rollNumber", "departmentId", "course",
            "yearOfStudy"}
      [] op = "register" -> {"fileName", "originatingDepartment", "createdBy"}
      [] op = "forward" ->
           {"fileId", "fromDepartment", "toDepartment", "forwardedBy"}
      [] op = "receive" -> {"fileId", "receivingDepartment", "receivedBy"}
      [] op = "start-trip" -> {"startingKm", "tripId", "file"}
      [] op = "end-trip" -> {"endingKm", "tripId", "file"}
      [] op = "create-trip" ->
           {"tripId", "startLocation", "endLocation", "driverId",
            "startTime", "endTime"}
      [] op = "start-run" -> {"startingFuelLevel", "runId", "file"}
      [] op = "end-run" -> {"endingFuelLevel", "runId", "file"}
      [] op = "create-log" ->
           {"runId", "location", "operatorId", "scheduledStartTime",
            "scheduledEndTime"}
      [] OTHER -> {}

\* Body b of operation op lacks a required field or sends it empty.
Misses(s, op, b) == \E f \in Required(s, op) : b[f] = undefined \/ b[f] = ""

\* C9: a request that arrives without one of the fields or the attachment its
\* operation requires is answered 400 at once: it has made no remote call,
\* and the spreadsheet and the drive are as they were.
C9_ValidationBeforeRemoteCalls ==
    [][\A p \in Procs :
         ( /\ req[p].pc = "idle" /\ req'[p].pc # "idle"
           /\ Misses(svc, req'[p].op, req'[p].body) ) =>
             /\ req'[p].pc = "done"
             /\ req'[p].status = 400
             /\ req'[p].calls = <<>>
             /\ sheet' = sheet /\ drive' = drive]_vars

\* A start or end event without its attachment was answered 400 with no
\* call made and nothing uploaded.
C9_Witness ==
    \E p \in Procs :
      /\ req[p].op \in UploadOps
      /\ req[p].body["file"] = undefined
      /\ \A f \in Required(svc, req[p].op) \ {"file"} : req[p].body[f] = "a"
      /\ req[p].pc = "done" /\ req[p].status = 400
      /\ req[p].calls = <<>> /\ drive = <<>>

----------------------------------------------------------------------------
(* C10 *)

\* The step is request p's upload failing, at the creation of the object or
\* at the permission.
UploadFails(p) ==
    /\ req[p].pc \in {"upload", "permission"}
    /\ Len(req'[p].calls) = Len(req[p].calls) + 1
    /\ ~req'[p].calls[Len(req'[p].calls)].ok

\* C10: when the upload of a start event, an end event or a registration
\* fails, at the creation of the object or at the permission, the request
\* ends there with 500: it has appended no row and appends none, and every
\* tab of the spreadsheet is as it was.
C10_UploadFailureAppendsNothing ==
    [][\A p \in Procs :
         UploadFails(p) =>
           /\ req'[p].pc = "done"
           /\ req'[p].status = 500
           /\ \A i \in 1..Len(req'[p].calls) : req'[p].calls[i].api # "append"
           /\ sheet' = sheet]_vars

\* An upload has failed at the permission step, after the object was
\* created: the request was answered 500 and its tab has the header row alone.
C10_Witness ==
    \E p \in Procs :
      /\ req[p].op \in UploadOps \cup {"register"}
      /\ req[p].pc = "done" /\ req[p].status = 500
      /\ Len(req[p].calls) = 2
      /\ req[p].calls[1].api = "drive.create" /\ req[p].calls[1].ok
      /\ req[p].calls[2].api = "drive.permission" /\ ~req[p].calls[2].ok
      /\ drive # <<>>
      /\ \A t \in Tables : Len(sheet[t]) = Len(InitSheet(FALSE)[t])

----------------------------------------------------------------------------
(* C11 *)

\* The identifiers of the blobs in the drive folder.
BlobIds == {drive[i].id : i \in 1..Len(drive)}

\* Some row of some tab holds the link of blob id.
Referenced(id) ==
    \E t \in Tables : \E i \in 1..Len(sheet[t]) :
      \E c \in 1..Len(sheet[t][i]) : sheet[t][i][c] = WebViewLink(id)

\* Request p uploads and then appends.
Uploads(p) == req[p].op \in UploadOps \cup {"register"}

\* C11: a request that uploads issues its append only after both steps of
\* the upload were answered with success, one call after the other; and when
\* that append fails, the request is answered 500, the blob it uploaded is
\* still in the drive folder, and no row of any tab holds its link.
C11_UploadThenAppendNotTransactional ==
    \A p \in Procs :
      Uploads(p) =>
        /\ \A i \in 1..Len(req[p].calls) :
             req[p].calls[i].api = "append" =>
               /\ i >= 3
               /\ req[p].calls[1].api = "drive.create" /\ req[p].calls[1].ok
               /\ req[p].calls[2].api = "drive.permission" /\ req[p].calls[2].ok
               /\ req[p].calls[1].at < req[p].calls[2].at
               /\ req[p].calls[2].at < req[p].calls[i].at
        /\ ( /\ Len(req[p].calls) = 3
             /\ req[p].calls[3].api = "append" /\ ~req[p].calls[3].ok ) =>
               /\ req[p].pc = "done" /\ req[p].status = 500
               /\ req[p].blob \in BlobIds
               /\ ~Referenced(req[p].blob)

\* The append of a start or end event failed after its upload: the blob is
\* in the folder, made public, and the tab has the header row alone.
C11_Witness ==
    \E p \in Procs :
      /\ req[p].op \in UploadOps
      /\ Len(req[p].calls) = 3
      /\ req[p].calls[3].api = "append" /\ ~req[p].calls[3].ok
      /\ req[p].status = 500
      /\ \E i \in 1..Len(drive) : drive[i].id = req[p].blob /\ drive[i].public
      /\ Len(sheet[LogTable(svc)]) = 1

----------------------------------------------------------------------------
(* C12 *)

\* The rows of Files after the header row that carry file id k.
FilesOf(k) == {i \in 2..Len(sheet["Files"]) : sheet["Files"][i][1] = k}

\* What a status request on k would be answered now.
StatusNow(k) ==
    FileStatus(ValuesGet(sheet["Movements"], 1, Width("Movements")), k).status

\* C12: a registration that has appended to Files and not yet to Movements
\* has one Files row of its file id and no Movements row; answered 201, it
\* has one Files row and one Movements row of that id, the latter REGISTERED;
\* when its append to Movements fails it is answered 500, the Files row
\* stays, Movements has no row of the id and a status request on the id
\* would be answered 404.
C12_RegisterTwoAppends ==
    \A p \in Procs :
      req[p].op = "register" =>
        LET k == req[p].id
        IN  /\ req[p].pc = "append2" =>
                 Cardinality(FilesOf(k)) = 1 /\ MovementsOf(k) = {}
            /\ (req[p].pc = "done" /\ req[p].status = 201) =>
                 /\ Cardinality(FilesOf(k)) = 1
                 /\ Cardinality(MovementsOf(k)) = 1
                 /\ \A i \in MovementsOf(k) :
                      sheet["Movements"][i][3] = "REGISTERED"
                 /\ Len(req[p].calls) = 4
            /\ (Len(req[p].calls) = 4 /\ ~req[p].calls[4].ok) =>
                 /\ req[p].pc = "done" /\ req[p].status = 500
                 /\ Cardinality(FilesOf(k)) = 1
                 /\ MovementsOf(k) = {}
                 /\ StatusNow(k) = 404

\* The status of a file that is in Files was asked for and answered 404: its
\* registration failed at the append to Movements.
C12_Witness ==
    \E p \in Procs :
      /\ StatusAnswered(p) /\ req[p].status = 404
      /\ Cardinality(FilesOf(req[p].key)) = 1
      /\ answered = <<>>

----------------------------------------------------------------------------
(* C13 *)

\* The action each movement operation logs.
ActionOf(op) == IF op = "forward" THEN "FORWARDED" ELSE "RECEIVED"

\* C13: a forward or receive request with its required fields goes to its
\* append without a call before it, whether or not Files has the file id;
\* when the append is answered, Movements has one more row, of that file id
\* and of the operation's action, Files is as it was and the request is
\* answered 200; and a status request on a file id that Files does not have
\* and Movements has is answered 200 with one history entry for each of its
\* Movements rows.
C13_MovementsWithoutExistenceCheck ==
    [][\A p \in Procs :
         /\ ( /\ req[p].pc = "idle"
              /\ req'[p].op \in {"forward", "receive"}
              /\ ~Misses(svc, req'[p].op, req'[p].body) ) =>
                /\ req'[p].pc = "append" /\ req'[p].calls = <<>>
                /\ req'[p].key = req'[p].body["fileId"]
         /\ ( /\ req[p].op \in {"forward", "receive"}
              /\ req[p].pc = "append"
              /\ req'[p].calls = Append(req[p].calls, Call("append", TRUE)) ) =>
                LET old == sheet["Movements"]
                    new == sheet'["Movements"]
                IN  /\ Len(new) = Len(old) + 1
                    /\ SubSeq(new, 1, Len(old)) = old
                    /\ new[Len(new)][2] = req[p].body["fileId"]
                    /\ new[Len(new)][3] = ActionOf(req[p].op)
                    /\ sheet'["Files"] = sheet["Files"]
                    /\ req'[p].pc = "done" /\ req'[p].status = 200
                    /\ Len(req'[p].calls) = 1
         /\ ( /\ req[p].op = "status" /\ req[p].pc = "get"
              /\ req'[p].calls = <<Call("get", TRUE)>>
              /\ FilesOf(req[p].key) = {}
              /\ MovementsOf(req[p].key) # {} ) =>
                /\ req'[p].status = 200
                /\ Len(req'[p].data) = Cardinality(MovementsOf(req[p].key))
                /\ \A n \in 1..Len(req'[p].data) :
                     req'[p].data[n]["Action"] =
                       sheet["Movements"][NthMovementOf(req[p].key, n)][3]]_vars

\* A file that was never registered was forwarded, and its status was then
\* asked for and answered 200 with that movement as its history.
C13_Witness ==
    \E p \in Procs :
      /\ StatusAnswered(p) /\ req[p].status = 200
      /\ FilesOf(req[p].key) = {}
      /\ answered = <<[op |-> "forward", id |-> req[p].key]>>
      /\ Len(req[p].data) = 1
      /\ req[p].data[1]["Action"] = "FORWARDED"
      /\ req[p].details.currentStatus = "FORWARDED"

----------------------------------------------------------------------------
(* C14 *)

\* The rows of the service's tab, header row counted, whose first cell is k.
RowsOf(k) == {i \in 1..Len(sheet[svc]) : sheet[svc][i][1] = k}

\* C14: the lookup of an update request, when answered, returns -1 if no row
\* of the tab has the key in column A, and otherwise the 1-based index,
\* header row counted, of the first such row from the top; and the write of
\* the request changes that row and no other, so of several rows carrying
\* the key only the first is changed.
C14_FirstMatchOnly ==
    [][\A p \in Procs :
         /\ ( /\ req[p].op = "update" /\ req[p].pc = "find"
              /\ req'[p].calls = <<Call("get", TRUE)>> ) =>
                IF RowsOf(req[p].key) = {}
                THEN req'[p].rowIndex = -1
                ELSE /\ req'[p].rowIndex \in RowsOf(req[p].key)
                     /\ \A j \in RowsOf(req[p].key) : req'[p].rowIndex <= j
         /\ Writes(p) =>
              /\ req[p].rowIndex \in RowsOf(req[p].key)
              /\ \A j \in RowsOf(req[p].key) : req[p].rowIndex <= j
              /\ Len(sheet'[svc]) = Len(sheet[svc])
              /\ \A j \in 1..Len(sheet[svc]) :
                   j # req[p].rowIndex => sheet'[svc][j] = sheet[svc][j]]_vars

\* An update of an identifier that two rows carry was answered 200: the
\* first of the two rows has the new value, the second is as it was.
C14_Witness ==
    \E p \in Procs :
      /\ Updated(p)
      /\ Cardinality(RowsOf(req[p].key)) = 2
      /\ \E f \in Supplied(req[p].body) :
           /\ sheet[svc][req[p].rowIndex][ColumnOf(svc)[f]] = req[p].body[f]
           /\ DuplicateSheet[svc][req[p].rowIndex][ColumnOf(svc)[f]]
                # req[p].body[f]
      /\ \A j \in RowsOf(req[p].key) :
           /\ req[p].rowIndex <= j
           /\ j # req[p].rowIndex => sheet[svc][j] = DuplicateSheet[svc][j]

----------------------------------------------------------------------------
(* C15 *)

\* C15: no step of any request to any service removes or moves a row: every
\* tab (the entity tabs, Files, Movements and Sheet1 of each log) has at
\* least as many rows after the step as before, and every row it had before
\* is at the same index with the same identifier (the id in column A of the
\* entity tabs and of Files, the fileId in column B of Movements, the tripId
\* or runId in column C of Sheet1).
C15_NoDeleteNoMove ==
    [][\A t \in Tables :
         LET key == CASE t \in {"Departments", "Employees", "Students",
                                "Files"} -> 1
                      [] t = "Movements" -> 2
                      [] t \in {"BusSheet1", "GenSheet1"} -> 3
         IN  /\ Len(sheet'[t]) >= Len(sheet[t])
             /\ \A i \in 1..Len(sheet[t]) :
                  sheet'[t][i][key] = sheet[t][i][key]]_vars

\* A forward of one file and a registration of another ran concurrently, the
\* forward appending to Movements between the two appends of the
\* registration: Files has the row of the registered file, and Movements has
\* the forward's row at the index at which it was appended, before the
\* REGISTERED row, each under its file id.
C15_Witness ==
    \E p, q \in Procs :
      /\ req[p].op = "forward" /\ req[p].status = 200
      /\ req[q].op = "register" /\ req[q].status = 201
      /\ req[q].calls[3].at < req[p].calls[1].at
      /\ req[p].calls[1].at < req[q].calls[4].at
      /\ Len(sheet["Files"]) = 2 /\ sheet["Files"][2][1] = req[q].id
      /\ Len(sheet["Movements"]) = 3
      /\ sheet["Movements"][2][2] = req[p].key
      /\ sheet["Movements"][2][3] = "FORWARDED"
      /\ sheet["Movements"][3][2] = req[q].id
      /\ sheet["Movements"][3][3] = "REGISTERED"

----------------------------------------------------------------------------
(* C16 *)

\* The step is the append of creation request p being answered.
Creates(p) ==
    /\ req[p].op = "create" /\ req[p].pc = "append"
    /\ req'[p].calls = <<Call("append", TRUE)>>

\* C16: when the append of a creation request is answered, the request is
\* answered 201 and the entity's tab is what it was with one row added at
\* its end: a first cell that no row of the tab had, each field of the body
\* in its column, the empty string where an optional field was not supplied
\* and in every column no field fills, and one timestamp in both created-at
\* and updated-at.
C16_CreateAppendsOneRow ==
    [][\A p \in Procs :
         Creates(p) =>
           LET old == sheet[svc]
               new == sheet'[svc]
               row == new[Len(new)]
               b == req[p].body
               filled == {ColumnOf(svc)[f] : f \in DOMAIN b}
           IN  /\ req'[p].pc = "done" /\ req'[p].status = 201
               /\ Len(new) = Len(old) + 1
               /\ SubSeq(new, 1, Len(old)) = old
               /\ \A t \in Tables \ {svc} : sheet'[t] = sheet[t]
               /\ Len(row) = Width(svc)
               /\ row[1] = req[p].id /\ row[1] # "" /\ NoRowHas(row[1])
               /\ \A f \in DOMAIN b :
                    row[ColumnOf(svc)[f]] =
                      IF b[f] = undefined THEN "" ELSE b[f]
               /\ \A c \in 2..(Width(svc) - 2) : c \notin filled => row[c] = ""
               /\ IsTime(row[CreatedAtColumn(svc)])
               /\ row[UpdatedAtColumn(svc)] = row[CreatedAtColumn(svc)]]_vars

\* A creation that left its optional fields out was answered 201: the last
\* row of the tab has its identifier, the empty string in the optional
\* columns and equal timestamps.
C16_Witness ==
    \E p \in Procs :
      /\ req[p].op = "create" /\ req[p].status = 201
      /\ \E f \in DOMAIN req[p].body : req[p].body[f] = undefined
      /\ LET row == sheet[svc][Len(sheet[svc])]
         IN  /\ row[1] = req[p].id
             /\ \A f \in DOMAIN req[p].body :
                  req[p].body[f] = undefined => row[ColumnOf(svc)[f]] = ""
             /\ row[UpdatedAtColumn(svc)] = row[CreatedAtColumn(svc)]
             /\ Len(sheet[svc]) > 2

----------------------------------------------------------------------------
(* C17 *)

\* The identifiers of the creation requests answered 201, in order.
CreatedIds == SelectSeq(answered, LAMBDA a : a.op = "create")

\* C17: the first cells of the data rows of each entity tab are pairwise
\* distinct, and so are the identifiers the answered creations returned,
\* whatever creations and updates ran and however they interleaved.
C17_PrimaryKeysUnique ==
    /\ \A e \in Entities :
         \A i, j \in 2..Len(sheet[e]) :
           i # j => sheet[e][i][1] # sheet[e][j][1]
    /\ \A i, j \in 1..Len(CreatedIds) :
         i # j => CreatedIds[i].id # CreatedIds[j].id

\* Two creations ran concurrently and both were answered 201, the one that
\* arrived second appending first: the tab ends with both new rows, under
\* distinct identifiers.
C17_Witness ==
    \E p, q \in Procs :
      /\ p # q
      /\ req[p].op = "create" /\ req[p].status = 201
      /\ req[q].op = "create" /\ req[q].status = 201
      /\ req[p].id # req[q].id
      /\ Len(CreatedIds) = 2
      /\ req[p].id = Uuid(4) /\ req[q].calls[1].at < req[p].calls[1].at
      /\ Len(sheet[svc]) = Len(InitSheet(TRUE)[svc]) + 2
      /\ sheet[svc][Len(sheet[svc])][1] = req[p].id
      /\ sheet[svc][Len(sheet[svc]) - 1][1] = req[q].id

----------------------------------------------------------------------------
(* C18 *)

\* The awaited remote calls of each handler, in the order of its code.
CallSites(op) ==
    CASE op = "update" -> <<"get", "get", "update">>
      [] op \in {"list", "listBy", "status"} -> <<"get">>
      [] op \in {"create", "forward", "receive", "create-trip", "create-log"} ->
           <<"append">>
      [] op = "register" ->
           <<"drive.create", "drive.permission", "append", "append">>
      [] op \in UploadOps -> <<"drive.create", "drive.permission", "append">>
      [] op = "none" -> <<>>

\* C18: the remote calls a request has made are the first calls of its
\* handler, each made once and in the order of the code; a call that failed
\* is the last the request made, and the request is over with status 500.
C18_FailureIs500NoRetry ==
    \A p \in Procs :
      LET made == req[p].calls
          sites == CallSites(req[p].op)
      IN  /\ Len(made) <= Len(sites)
          /\ \A i \in 1..Len(made) : made[i].api = sites[i]
          /\ \A i \in 1..Len(made) :
               ~made[i].ok =>
                 /\ i = Len(made)
                 /\ req[p].pc = "done" /\ req[p].status = 500

\* A request whose earlier calls had succeeded had a later call fail: it
\* was answered 500 and that call is its last.
C18_Witness ==
    \E p \in Procs :
      /\ req[p].pc = "done" /\ req[p].status = 500
      /\ Len(req[p].calls) >= 2
      /\ ~req[p].calls[Len(req[p].calls)].ok
      /\ \A i \in 1..(Len(req[p].calls) - 1) : req[p].calls[i].ok
      /\ left > 0

----------------------------------------------------------------------------
(* C19 *)

\* C19: no step of a creation, update or list request changes the header
\* row of an entity tab, and no update request that got past its lookup
\* holds row 1 as the row of its key.
C19_HeaderRowNeverModified ==
    [][/\ \A e \in Entities : sheet'[e][1] = sheet[e][1]
       /\ \A p \in Procs :
            req'[p].op = "update" /\ req'[p].pc \in {"read", "write"}
              => req'[p].rowIndex # 1]_vars

----------------------------------------------------------------------------
(* C20 *)

\* The row the lookup of update request r resolved has r's key in column A.
Designates(grid, r) ==
    /\ r.rowIndex \in 1..Len(grid)
    /\ grid[r.rowIndex][1] = r.key

\* C20: from the answer of its lookup to its write, the row index an update
\* request holds is that of a row whose column A is the request's key,
\* whatever the other request did in between; the write changes that row and
\* no other.
C20_ResolvedRowStillHasKey ==
    [][\A p \in Procs :
         /\ ( req'[p].op = "update" /\ req'[p].pc \in {"read", "write"} )
              => Designates(sheet'[svc], req'[p])
         /\ Writes(p) =>
              /\ Designates(sheet[svc], req[p])
              /\ Designates(sheet'[svc], req[p])
              /\ \A i \in 1..Len(sheet[svc]) :
                   i # req[p].rowIndex => sheet'[svc][i] = sheet[svc][i]]_vars

\* An update wrote the row of a record while a creation, which arrived and
\* appended between the update's lookup and its write, added a row: the row
\* written is the one of the key, and it changed.
C20_Witness ==
    \E p, q \in Procs :
      /\ Updated(p) /\ req[p].rowIndex >= 2
      /\ req[q].op = "create" /\ req[q].status = 201
      /\ req[p].calls[1].at < req[q].calls[1].at
      /\ req[q].calls[1].at < WriteAt(p)
      /\ Designates(sheet[svc], req[p])
      /\ sheet[svc][req[p].rowIndex][UpdatedAtColumn(svc)] = ISO(WriteAt(p) - 1)
      /\ sheet[svc][Len(sheet[svc])][1] = req[q].id

----------------------------------------------------------------------------
(* C21 *)

\* C21: the write of an update request that is answered 200 leaves every
\* row of its tab but the resolved one as it was, the number of rows and the
\* width of the resolved row as they were, and every other tab and the
\* folder as they were; no step of a listing or of a status request, its
\* arrival included, changes any tab.
C21_UpdateAndReadsFrame ==
    [][\A p \in Procs :
         /\ Writes(p) =>
              /\ Len(sheet'[svc]) = Len(sheet[svc])
              /\ \A i \in 1..Len(sheet[svc]) :
                   i # req[p].rowIndex => sheet'[svc][i] = sheet[svc][i]
              /\ Len(sheet'[svc][req[p].rowIndex])
                   = Len(sheet[svc][req[p].rowIndex])
              /\ \A t \in Tables \ {svc} : sheet'[t] = sheet[t]
              /\ drive' = drive
         /\ ( /\ req'[p] # req[p]
              /\ \/ req[p].op \in {"list", "listBy", "status"}
                 \/ req'[p].op \in {"list", "listBy", "status"} )
              => sheet' = sheet /\ drive' = drive]_vars

\* An update of the first record was answered 200: its row is no longer the
\* initial one, while the header row, the second record and the number of
\* rows are the initial ones.
C21_Witness ==
    /\ svc \in Entities
    /\ Updated(1) /\ req[1].rowIndex = 2
    /\ Len(sheet[svc]) = 3
    /\ sheet[svc][2] # InitSheet(TRUE)[svc][2]
    /\ sheet[svc][2][UpdatedAtColumn(svc)] # ISO(0)
    /\ sheet[svc][1] = InitSheet(TRUE)[svc][1]
    /\ sheet[svc][3] = InitSheet(TRUE)[svc][3]
    /\ \A t \in Tables \ {svc} : sheet[t] = InitSheet(TRUE)[t]

----------------------------------------------------------------------------
(* C22 *)

\* C22: in every step, each row a step adds to an entity's tab has a
\* non-empty cell in every column of a required field, and a cell of such a
\* column that was not empty is not empty afterwards, whichever request
\* took the step and whatever the other request read before it.
C22_RequiredFieldsStayFilled ==
    [][\A e \in Entities :
         \A i \in 1..Len(sheet'[e]) :
           \A c \in {ColumnOf(e)[f] : f \in Required(e, "create")} :
             IF i <= Len(sheet[e])
             THEN sheet[e][i][c] # "" => sheet'[e][i][c] # ""
             ELSE sheet'[e][i][c] # ""]_vars

\* A creation was answered 201 and an update of the record it created, which
\* supplied one required field, was answered 200: the row has the supplied
\* value in that field's column and none of its required cells is empty.
C22_Witness ==
    \E p, q \in Procs :
      /\ req[p].op = "create" /\ req[p].status = 201
      /\ Updated(q) /\ req[q].key = req[p].id
      /\ req[q].rowIndex = Len(InitSheet(TRUE)[svc]) + 1
      /\ \E f \in Required(svc, "create") :
           /\ req[q].body[f] = "b"
           /\ sheet[svc][req[q].rowIndex][ColumnOf(svc)[f]] = "b"
      /\ \A f \in Required(svc, "create") :
           sheet[svc][req[q].rowIndex][ColumnOf(svc)[f]] \in {"a", "b"}

----------------------------------------------------------------------------
(* C23 *)

\* Remote calls served in one run of requests to the file movement log in
\* which a status answer is kept for comparison with a later one.
MaxStatusCalls == 4

\* The file movement log after one registration: the blob of the QR code in
\* the folder, the row of the file in Files and its REGISTERED row in
\* Movements.
InitStatus ==
    /\ LET b == Full(RegisterFields, "a")
       IN  sheet =
             [InitSheet(FALSE) EXCEPT
                !["Files"] =
                  ValuesAppend(@, Width("Files"),
                    FilesRow(Uuid(3), b, ISO(0), WebViewLink(BlobId(1)))),
                !["Movements"] =
                  ValuesAppend(@, Width("Movements"),
                    RegisteredRow(Uuid(3), b, ISO(0)))]
    /\ drive = <<[id |-> BlobId(1), public |-> TRUE]>>
    /\ now = 1
    /\ nextId = 4
    /\ svc = "FileLog"
    /\ left = MaxStatusCalls
    /\ answered = <<[op |-> "register", id |-> Uuid(3)]>>
    /\ req = [p \in Procs |-> Idle]

\* Requests to the file movement log whose remote calls all succeed: slot 1
\* takes one request after another, slot 2 takes one status request and
\* keeps its answer.
NextStatus ==
    \/ NextHistory
    \/ StatusRequest(2) \/ StatusGet(2)

SpecStatus == InitStatus /\ [][NextStatus]_vars

\* history of the response GET /status/:fileId would send for k over grid, the
\* rows of Movements.
HistoryOf(grid, k) ==
    FileStatus(ValuesGet(grid, 1, Width("Movements")), k).history

\* s is the beginning of t.
IsPrefix(s, t) == Len(s) <= Len(t) /\ SubSeq(t, 1, Len(s)) = s

\* C23: the history a status request is answered is the one the Movements
\* tab holds for its file at that moment, as long as the number of
\* registrations, forwards and receives answered for the file; a step that
\* changes the Movements tab leaves the history of every file a beginning
\* of what it becomes, one entry longer at most, and changes it only when it
\* is the append of a request that names the file;
\* and of two answered status requests on one file, the history of the one
\* answered first is a beginning of the history of the other.
C23_HistoryGrowsByExtension ==
    [][/\ \A p \in Procs :
            ( /\ req[p].op = "status" /\ req[p].pc = "get"
              /\ req'[p].pc = "done" ) =>
                /\ req'[p].data = HistoryOf(sheet["Movements"], req[p].key)
                /\ Len(req'[p].data) = Len(AnsweredFor(req[p].key))
       /\ sheet'["Movements"] # sheet["Movements"] =>
            \A k \in FileIds \cup {answered[i].id : i \in 1..Len(answered)}
                             \cup {req[p].id : p \in Procs}
                             \cup {req[p].key : p \in Procs} :
              LET old == HistoryOf(sheet["Movements"], k)
                  new == HistoryOf(sheet'["Movements"], k)
              IN  /\ IsPrefix(old, new)
                  /\ Len(new) <= Len(old) + 1
                  /\ new # old =>
                       \E p \in Procs :
                         /\ req[p].pc \in {"append", "append2"}
                         /\ req'[p].pc = "done"
                         /\ req[p].op \in {"register", "forward", "receive"}
                         /\ k = IF req[p].op = "register" THEN req[p].id
                                ELSE req[p].key
       /\ \A p, q \in Procs :
            ( /\ req'[p].op = "status" /\ req'[p].pc = "done"
              /\ req'[q].op = "status" /\ req'[q].pc = "done"
              /\ req'[p].key = req'[q].key
              /\ req'[q].calls[1].at <= req'[p].calls[1].at ) =>
                IsPrefix(req'[q].data, req'[p].data)]_vars

\* Two status requests on one file were answered 200, the second with one
\* more history entry than the first, and a movement of another file was
\* appended between the two answers.
C23_Witness ==
    \E p, q \in Procs :
      /\ StatusAnswered(p) /\ StatusAnswered(q)
      /\ req[p].key = req[q].key
      /\ req[q].calls[1].at < req[p].calls[1].at
      /\ req[q].status = 200 /\ req[p].status = 200
      /\ Len(req[p].data) = Len(req[q].data) + 1
      /\ IsPrefix(req[q].data, req[p].data)
      /\ \E i \in 2..Len(sheet["Movements"]) :
           /\ sheet["Movements"][i][2] # req[p].key
           /\ \E j \in MovementsOf(req[p].key) : j < i
           /\ \E j \in MovementsOf(req[p].key) : j > i

====
